---- MODULE Spec2Model ----
(***************************************************************************)
(* CloudDrop: the room server (src/src/room.ts, a Durable Object using the *)
(* WebSocket hibernation API) and the browser client                       *)
(* (src/public/js/app.js).                                                 *)
(*                                                                         *)
(* Spec         the room server: the password gate on upgrade, join and     *)
(*              leave, the roster, broadcast.                              *)
(* SpecForward  the room server: the forwarded message types.              *)
(* SpecPwd      the room server: overlapping set-password requests.        *)
(* SpecConn     the client: its room-server socket, the reconnect timer,   *)
(*              the room password.                                         *)
(* SpecFile     the client: file requests, the prompt, trusted devices.    *)
(* SpecPcm      two clients negotiating one peer connection;               *)
(* SpecPcmLive  the same with frames delivered and timers firing.          *)
(* SpecHibernate the room server with its password requests and with      *)
(*              hibernation: the object is evicted and constructed again.  *)
(* SpecFifo     the room server: numbered targeted messages and the order  *)
(*              in which each socket receives them.                        *)
(* SpecDrop     the room server: frames of unknown type, frames that are   *)
(*              not a JSON object, frames with a missing target.           *)
(* SpecReconnect the client: its socket, the reconnect timer and the       *)
(*              WebRTCManager objects it creates.                          *)
(* SpecTransfer one file transfer between two clients: request, answer,    *)
(*              timeout, chunks, cancellation on both planes.              *)
(* SpecTrust    the client: the trust store among everything that reaches  *)
(*              it (peers, requests, sockets, the transfer engine).        *)
(* SpecStart    the receiving client: file requests and file-start frames  *)
(*              of the data channel.                                       *)
(* SpecMirror   the clients of one room and the room server together: the  *)
(*              peer tables against the server's roster.                   *)
(* SpecChunks   one accepted file on the data channel: file-start, the     *)
(*              chunks, file-end.                                          *)
(* SpecLog      the room server with every frame each socket's client      *)
(*              receives kept in order.                                    *)
(* SpecSpoof    the room server and clients that send frames of the        *)
(*              server's own types and of unknown types.                   *)
(* SpecGate     the room server: a password set on a room that has peers.  *)
(* SpecBusy     the client: a file being sent while file requests are      *)
(*              accepted.                                                  *)
(* SpecChat     the client: the message history of a chat, sends and       *)
(*              retries.                                                   *)
(***************************************************************************)
EXTENDS Integers, Sequences, FiniteSets, TLC

VARIABLES
  passwordHash,   \* Room.passwordHash (in memory), NULL when unset
  storage,        \* state.storage 'passwordHash' (durable), NULL when absent
  reqs,           \* set-password requests waiting for their body
  okArgs,         \* arguments of the requests answered success:true, in order
  sockets,        \* server side of every accepted WebSocket, in order of accept
  nextId,         \* peer-ids handed out so far (crypto.randomUUID is fresh)
  last,           \* the event the server handled last
  sent,           \* frames the last handler sent, in order: <<socket, frame>>
  \* one client (class CloudDrop)
  cws,                 \* every WebSocket the client created, in order
  thisWs,              \* this.ws: index into cws, 0 when null
  timers,              \* pending setTimeout(() => this.connectWebSocket(), ...)
  attempts,            \* closes that scheduled a reconnect since the last onopen
  roomPassword,        \* this.roomPassword
  roomPasswordHash,    \* this.roomPasswordHash
  isSecureRoom,        \* this.isSecureRoom
  joinModal,           \* the join-room modal is shown
  peers,               \* this.peers: peer-id -> peer info
  trustedDevices,      \* this.trustedDevices: the fingerprints (keys)
  savedTrustedDevices, \* localStorage clouddrop_trusted_devices: the same
  pendingFileRequest,  \* this.pendingFileRequest
  currentTransfer,     \* this.currentTransfer
  receiveModal,        \* the confirmation prompt (receiveModal) is shown
  requests,            \* file-request frames the client received, in order,
                       \* each with whether the prompt was shown for it
  responses,           \* file-response frames the client sent, in order
  clast,               \* the event the client handled last
  \* two clients' peer connection managers (webrtc.js), one toward the other
  pcm,                 \* peer-id -> the connection toward the other peer
  wire,                \* peer-id -> signaling frames on their way to that peer
  \* the client's WebRTCManager objects (new WebRTCManager in connectWebSocket)
  managers,            \* every manager created, in order: its open connections
  thisWebrtc,          \* this.webrtc: index into managers, 0 when null
  \* the clients of the room server's sockets, as far as forwarding goes
  submitted,           \* socket -> targeted messages its client has sent
  delivered,           \* socket -> frames its client received, in order (the
                       \* forwarded ones, or in SpecLog all of them)
  \* one file transfer between a sending and a receiving client
  te,                  \* side -> the transfer as that side's engine and app hold it
  chan,                \* side -> frames on their way to that side, per channel
  \* what the client holds of the transfers it receives
  incomingTransfers,   \* this.webrtc.incomingTransfers: peer-id -> the transfer
                       \* the client set up when it accepted a file request
  receivingModal,      \* the transfer the receiving progress modal shows
  \* the clients of one room, each with the sockets it opened
  apps,                \* client -> its peer table, this.ws, this.peerId, timers
  ends,                \* socket -> the client's end of it: its owner, readyState,
                       \* onclose handler and the frames it has yet to handle
  \* one accepted file on its way through the data channel
  outgoing,            \* the sender's transfer: size, chunks and frames sent
  incoming,            \* the receiver's transfer: chunks and bytes received
  \* the file the client is sending while it may accept one
  sending,             \* the sendFile call sendFiles awaits: peer, file, state
  \* the chat with one peer
  messageHistory,      \* this.messageHistory.get(peerId): the entries, in order
  textSends,           \* the sendText calls not settled yet, each with its entry,
                       \* in the order they were made
  currentChatPeer,     \* this.currentChatPeer: a peer-id, 0 when null
  chatInputDisabled    \* the chat input and its send button are disabled

serverVars == <<passwordHash, storage, reqs, okArgs, sockets, nextId, last, sent>>

connVars == <<cws, thisWs, timers, attempts, roomPassword, roomPasswordHash,
              isSecureRoom, joinModal>>

fileVars == <<trustedDevices, savedTrustedDevices, pendingFileRequest,
              currentTransfer, receiveModal,
              requests, responses>>

pcmVars == <<pcm, wire>>

rtcVars == <<managers, thisWebrtc>>

fifoVars == <<submitted, delivered>>

teVars == <<te, chan>>

startVars == <<incomingTransfers, receivingModal>>

mirrorVars == <<apps, ends>>

chunkVars == <<outgoing, incoming>>

busyVars == <<sending>>

chatVars == <<messageHistory, textSends, currentChatPeer, chatInputDisabled>>

clientVars == <<connVars, fileVars, peers, clast, pcmVars, rtcVars, fifoVars, teVars,
                startVars, mirrorVars, chunkVars, busyVars, chatVars>>

vars == <<serverVars, clientVars>>

----------------------------------------------------------------------------
(* Bounds of the model *)

MaxSockets == 3     \* WebSocket upgrades accepted
MaxIds == 3         \* join messages that get a peer-id
MaxReqs == 3        \* set-password requests
MaxSubmitted == 3   \* targeted messages the clients send in all

----------------------------------------------------------------------------
(* Values *)

NULL == "null"                    \* JavaScript null / undefined / absent header
Hashes == {"h1", "h2"}            \* password hashes clients derive
RoomCode == "ROOM"                \* X-Room-Code of this room (the socket tag)

\* PeerAttachment; id = 0 stands for "no attachment" (deserializeAttachment null)
NoAtt == [id |-> 0, name |-> "", deviceType |-> "", browserInfo |-> ""]

\* join data a client may send; "" is a missing / falsy field
JoinData ==
  { [name |-> "Ann", deviceType |-> "mobile", browserInfo |-> "Chrome"],
    [name |-> "", deviceType |-> "", browserInfo |-> ""] }

\* Room.generateName: adjective + noun drawn at random
GeneratedNames == {"Swift Phoenix", "Calm Lion"}

\* the types Room.webSocketMessage forwards to msg.to
ForwardedTypes ==
  {"offer", "answer", "ice-candidate", "text", "relay-data", "key-exchange",
   "file-request", "file-response", "file-cancel"}

\* types with no case in the switch (some are in SignalingMessage's union)
IgnoredTypes == {"leave", "peer-joined", "bogus"}

\* a frame the server sends; unused fields keep their defaults
Frame(type) ==
  [type |-> type, from |-> 0, data |-> "", peerId |-> 0, roomCode |-> "",
   peers |-> <<>>, peer |-> NoAtt, error |-> "", code |-> 0]

\* server.close(code): the close frame that follows what was sent before it
CloseFrame(code) == [Frame("close") EXCEPT !.code = code]

\* a frame a client sends, as parsed by JSON.parse; wellFormed = FALSE is a
\* frame JSON.parse throws on; hasData = FALSE is a message without data
ClientMsg(type, to, from, hasData, data, join) ==
  [wellFormed |-> TRUE, type |-> type, to |-> to, from |-> from,
   hasData |-> hasData, data |-> data, join |-> join]

Garbage ==
  [wellFormed |-> FALSE, type |-> "", to |-> 0, from |-> 0,
   hasData |-> FALSE, data |-> "", join |-> NoAtt]

NoMsg == Garbage

JoinDataAsRecord(j) ==
  [id |-> 0, name |-> j.name, deviceType |-> j.deviceType,
   browserInfo |-> j.browserInfo]

\* join messages that carry data
JoinMsgs ==
  {ClientMsg("join", 0, 0, TRUE, "", JoinDataAsRecord(j)) : j \in JoinData}

\* join without data, name-changed (with and without data), a frame that
\* does not parse, types the switch has no case for
OtherMsgs ==
  {Garbage}
  \cup {ClientMsg("join", 0, 0, FALSE, "", NoAtt)}
  \cup {ClientMsg("name-changed", 0, 0, TRUE, "Zed", NoAtt),
        ClientMsg("name-changed", 0, 0, FALSE, "", NoAtt)}
  \cup {ClientMsg(t, 1, 0, TRUE, "d1", NoAtt) : t \in IgnoredTypes}

\* targeted messages: every forwarded type, to every id or none, with a from
\* the client wrote itself
TargetedMsgs ==
  {ClientMsg(t, to, fd[1], TRUE, fd[2], NoAtt) :
     t \in ForwardedTypes, to \in 0..MaxIds, fd \in {<<0, "d1">>, <<1, "d2">>}}

----------------------------------------------------------------------------
(* Sockets.  rs is the server side's readyState:                            *)
(*   OPEN     accepted, neither side has closed                             *)
(*   CLOSING  the server called close(code): send() throws from now on, the *)
(*            client's frames are still delivered until its close arrives   *)
(*   GONE     closed or failed; no longer in state.getWebSockets()          *)

NewSocket == [rs |-> "OPEN", att |-> NoAtt]

Sockets == 1..Len(sockets)

\* state.getWebSockets(): every accepted socket not yet disconnected
GetWebSockets(socks) == {s \in 1..Len(socks) : socks[s].rs # "GONE"}

\* Room.getActivePeers: the Map id -> socket built in socket order; a later
\* socket with the same id replaces the value and keeps the first position.
\* Returned as the sequence of sockets in Map order.
RECURSIVE ActivePeersUpTo(_, _)
ActivePeersUpTo(socks, n) ==
  IF n = 0 THEN <<>>
  ELSE LET prev == ActivePeersUpTo(socks, n - 1)
           a == socks[n].att
       IN IF n \notin GetWebSockets(socks) \/ a.id = 0 THEN prev
          ELSE IF \E i \in 1..Len(prev) : socks[prev[i]].att.id = a.id
               THEN [i \in 1..Len(prev) |->
                       IF socks[prev[i]].att.id = a.id THEN n ELSE prev[i]]
               ELSE Append(prev, n)

GetActivePeers(socks) == ActivePeersUpTo(socks, Len(socks))

\* Room.getPeerIdFromWs: attachment?.id (0 when there is none)
GetPeerIdFromWs(socks, ws) == socks[ws].att.id

\* activePeers.get(id): the socket of peer id, 0 when absent
PeerSocket(socks, id) ==
  LET ap == GetActivePeers(socks)
      hit == {i \in 1..Len(ap) : socks[ap[i]].att.id = id}
  IN IF id = 0 \/ hit = {} THEN 0 ELSE ap[CHOOSE i \in hit : TRUE]

RECURSIVE SeqFilter(_, _)
SeqFilter(seq, keep) ==
  IF seq = <<>> THEN <<>>
  ELSE IF Head(seq) \in keep THEN <<Head(seq)>> \o SeqFilter(Tail(seq), keep)
       ELSE SeqFilter(Tail(seq), keep)

\* a broadcast over ctx.getWebSockets() instead of the active peers: every
\* OPEN socket, joined or not
BroadcastAll(socks, frame, excludePeerId) ==
  LET to == SeqFilter([i \in 1..Len(socks) |-> i],
                      {s \in 1..Len(socks) :
                         /\ socks[s].att.id # excludePeerId
                         /\ socks[s].rs = "OPEN"})
  IN [i \in 1..Len(to) |-> <<to[i], frame>>]

\* Room.broadcast: the message to every active peer but excludePeerId whose
\* socket is OPEN, in Map order
Broadcast(socks, frame, excludePeerId) ==
  LET ap == GetActivePeers(socks)
      to == SeqFilter(ap, {s \in 1..Len(socks) :
                             /\ socks[s].att.id # excludePeerId
                             /\ socks[s].rs = "OPEN"})
  IN [i \in 1..Len(to) |-> <<to[i], frame>>]

----------------------------------------------------------------------------
(* Handlers of Room.  Each returns what it leaves behind:                   *)
(*   socks  the sockets (attachments) afterwards                            *)
(*   out    the frames it sent, in order                                    *)

Done(socks, out) == [socks |-> socks, out |-> out]

\* the { id, name, deviceType, browserInfo } object of a roster entry
PeerInfo(a) ==
  [id |-> a.id, name |-> a.name, deviceType |-> a.deviceType,
   browserInfo |-> a.browserInfo]

\* Room.handleJoin with the UUID and the generated name it draws
HandleJoin(socks, ws, msg, peerId, genName) ==
  IF ~msg.hasData THEN Done(socks, <<>>)   \* joinData.name: TypeError
  ELSE
    LET joinData == msg.join
        attachment ==
          [id |-> peerId,
           name |-> IF joinData.name = "" THEN genName ELSE joinData.name,
           deviceType |-> IF joinData.deviceType = "" THEN "desktop"
                          ELSE joinData.deviceType,
           browserInfo |-> joinData.browserInfo]
        socks1 == [socks EXCEPT ![ws].att = attachment]
        activePeers == GetActivePeers(socks1)
        others == SeqFilter(activePeers,
                            {s \in 1..Len(socks1) : socks1[s].att.id # peerId})
        otherPeers == [i \in 1..Len(others) |-> PeerInfo(socks1[others[i]].att)]
        joined == [Frame("joined") EXCEPT !.peerId = peerId,
                                          !.roomCode = RoomCode,
                                          !.peers = otherPeers]
        peerJoined == [Frame("peer-joined") EXCEPT !.peer = PeerInfo(attachment)]
    IN IF socks1[ws].rs # "OPEN"
       THEN Done(socks1, <<>>)      \* ws.send after close(): TypeError
       ELSE Done(socks1, <<<<ws, joined>>>> \o Broadcast(socks1, peerJoined, peerId))

\* Room.handleLeave, run while ws is no longer OPEN
HandleLeave(socks, ws) ==
  LET peerId == GetPeerIdFromWs(socks, ws)
      peerLeft == [Frame("peer-left") EXCEPT !.peer = [NoAtt EXCEPT !.id = peerId]]
  IN IF peerId # 0 THEN Done(socks, Broadcast(socks, peerLeft, 0))
     ELSE Done(socks, <<>>)

\* a forward that answers the sender with an error frame when the target is
\* not live
ForwardToReplying(socks, ws, msg, type) ==
  IF msg.to = 0 THEN Done(socks, <<>>)
  ELSE
    LET fromPeerId == GetPeerIdFromWs(socks, ws)
        target == PeerSocket(socks, msg.to)
        frame == [Frame(type) EXCEPT !.from = fromPeerId,
                                     !.data = IF msg.hasData THEN msg.data ELSE ""]
    IN IF fromPeerId = 0 THEN Done(socks, <<>>)
       ELSE IF target # 0 /\ socks[target].rs = "OPEN"
            THEN Done(socks, <<<<target, frame>>>>)
            ELSE Done(socks, <<<<ws, [Frame("error") EXCEPT !.error = "NO_PEER"]>>>>)

\* a forward that puts the frame on the wire twice
ForwardToTwice(socks, ws, msg, type) ==
  IF msg.to = 0 THEN Done(socks, <<>>)
  ELSE
    LET fromPeerId == GetPeerIdFromWs(socks, ws)
        target == PeerSocket(socks, msg.to)
        frame == [Frame(type) EXCEPT !.from = fromPeerId,
                                     !.data = IF msg.hasData THEN msg.data ELSE ""]
    IN IF fromPeerId = 0 THEN Done(socks, <<>>)
       ELSE IF target # 0 /\ socks[target].rs = "OPEN"
            THEN Done(socks, <<<<target, frame>>, <<target, frame>>>>)
            ELSE Done(socks, <<>>)

ForwardToKeepingFrom(socks, ws, msg, type) ==
  IF msg.to = 0 THEN Done(socks, <<>>)
  ELSE
    LET fromPeerId == GetPeerIdFromWs(socks, ws)
        target == PeerSocket(socks, msg.to)
        frame == [Frame(type) EXCEPT !.from = msg.from,
                                     !.data = IF msg.hasData THEN msg.data ELSE ""]
    IN IF fromPeerId = 0 THEN Done(socks, <<>>)
       ELSE IF target # 0 /\ socks[target].rs = "OPEN"
            THEN Done(socks, <<<<target, frame>>>>)
            ELSE Done(socks, <<>>)

\* the body the five forwarding handlers share: type is what they put in the
\* forwarded frame
ForwardTo(socks, ws, msg, type) ==
  IF msg.to = 0 THEN Done(socks, <<>>)
  ELSE
    LET fromPeerId == GetPeerIdFromWs(socks, ws)
        target == PeerSocket(socks, msg.to)
        frame == [Frame(type) EXCEPT !.from = fromPeerId,
                                     !.data = IF msg.hasData THEN msg.data ELSE ""]
    IN IF fromPeerId = 0 THEN Done(socks, <<>>)
       ELSE IF target # 0 /\ socks[target].rs = "OPEN"
            THEN Done(socks, <<<<target, frame>>>>)
            ELSE Done(socks, <<>>)

HandleSignaling(socks, ws, msg) == ForwardTo(socks, ws, msg, msg.type)

HandleText(socks, ws, msg) == ForwardTo(socks, ws, msg, "text")

HandleRelayData(socks, ws, msg) == ForwardTo(socks, ws, msg, "relay-data")

HandleKeyExchange(socks, ws, msg) == ForwardTo(socks, ws, msg, "key-exchange")

HandleFileSignaling(socks, ws, msg) == ForwardTo(socks, ws, msg, msg.type)

\* a name-changed that is broadcast without the attachment being stored
HandleNameChangedUnsaved(socks, ws, msg) ==
  LET senderId == socks[ws].att.id
      nameChanged == [Frame("name-changed") EXCEPT !.from = senderId,
                                                   !.data = msg.data]
  IN IF senderId = 0 THEN Done(socks, <<>>)
     ELSE IF ~msg.hasData THEN Done(socks, <<>>)
     ELSE Done(socks, Broadcast(socks, nameChanged, senderId))

\* Room.handleNameChanged
HandleNameChanged(socks, ws, msg) ==
  LET senderId == socks[ws].att.id
      socks1 == [socks EXCEPT ![ws].att.name = msg.data]
      nameChanged == [Frame("name-changed") EXCEPT !.from = senderId,
                                                   !.data = msg.data]
  IN IF senderId = 0 THEN Done(socks, <<>>)
     ELSE IF ~msg.hasData THEN Done(socks, <<>>)    \* nameData.name: TypeError
     ELSE Done(socks1, Broadcast(socks1, nameChanged, senderId))

\* a switch whose default case forwards the message to msg.to like an offer
DispatchAnyType(socks, ws, msg, peerId, genName) ==
  IF ~msg.wellFormed THEN Done(socks, <<>>)
  ELSE CASE msg.type = "join" -> HandleJoin(socks, ws, msg, peerId, genName)
         [] msg.type = "text" -> HandleText(socks, ws, msg)
         [] msg.type = "relay-data" -> HandleRelayData(socks, ws, msg)
         [] msg.type = "key-exchange" -> HandleKeyExchange(socks, ws, msg)
         [] msg.type = "name-changed" -> HandleNameChanged(socks, ws, msg)
         [] msg.type \in {"file-request", "file-response", "file-cancel"} ->
              HandleFileSignaling(socks, ws, msg)
         [] OTHER -> HandleSignaling(socks, ws, msg)

\* the switch of Room.webSocketMessage inside its try / catch: a frame that
\* does not parse, or a handler that throws, leaves what was done before
Dispatch(socks, ws, msg, peerId, genName) ==
  IF ~msg.wellFormed THEN Done(socks, <<>>)
  ELSE CASE msg.type = "join" -> HandleJoin(socks, ws, msg, peerId, genName)
         [] msg.type \in {"offer", "answer", "ice-candidate"} ->
              HandleSignaling(socks, ws, msg)
         [] msg.type = "text" -> HandleText(socks, ws, msg)
         [] msg.type = "relay-data" -> HandleRelayData(socks, ws, msg)
         [] msg.type = "key-exchange" -> HandleKeyExchange(socks, ws, msg)
         [] msg.type = "name-changed" -> HandleNameChanged(socks, ws, msg)
         [] msg.type \in {"file-request", "file-response", "file-cancel"} ->
              HandleFileSignaling(socks, ws, msg)
         [] OTHER -> Done(socks, <<>>)

GateCodeAnyHash(stored, provided) ==
  IF stored = NULL THEN 0
  ELSE IF provided = NULL \/ provided = "" THEN 4001
  ELSE 0

\* the password gate of Room.handleWebSocket: the close code (0: admitted)
GateCode(stored, provided) ==
  IF stored = NULL THEN 0
  ELSE IF provided = NULL \/ provided = "" THEN 4001
  ELSE IF provided # stored THEN 4002
  ELSE 0

GateError(code) ==
  IF code = 4001 THEN "PASSWORD_REQUIRED" ELSE "PASSWORD_INCORRECT"

----------------------------------------------------------------------------
(* The event the server handled last *)

Event(op, ws, id, msg, arg, res) ==
  [op |-> op, ws |-> ws, id |-> id, msg |-> msg, arg |-> arg, res |-> res]

\* no handler has run since the last frames and response left the server
Idle == Event("idle", 0, 0, NoMsg, "", "")

\* the event loop takes the next event once the handler before it returned
\* and what it sent is on the wire
Ready == last = Idle /\ sent = <<>>

----------------------------------------------------------------------------
(* The client before it is started *)

NoPeers == [i \in {} |-> NoAtt]

\* this.pendingFileRequest = null, this.currentTransfer = null
NoRequest == [peerId |-> 0, fileId |-> 0]
NoTransfer == [peerId |-> 0, fileId |-> 0, direction |-> ""]

ClientEvent(op, ws, code, n, delay, peerId, fileId, res) ==
  [op |-> op, ws |-> ws, code |-> code, n |-> n, delay |-> delay,
   peerId |-> peerId, fileId |-> fileId, res |-> res]

NoClientEvent == ClientEvent("none", 0, 0, 0, 0, 0, "", "")

\* the two peers of a negotiation; the higher peer-id is the polite side
PcmPeers == {"a", "b"}
NoConnection ==
  [objects |-> 0, state |-> "idle", sig |-> "stable", desc |-> "none",
   candSent |-> FALSE, buffered |-> 0, applied |-> 0,
   rolledBack |-> FALSE]
NoPcm == [p \in PcmPeers |-> NoConnection]
NoWire == [p \in PcmPeers |-> <<>>]

PcmOff == pcm = NoPcm /\ wire = NoWire

\* no targeted message sent, none received
NoSubmitted == [s \in 1..MaxSockets |-> 0]
NoDelivered == [s \in 1..MaxSockets |-> <<>>]
FifoOff == submitted = NoSubmitted /\ delivered = NoDelivered

\* the sending and the receiving side of a transfer
TeSides == {"send", "receive"}

\* one side's view of the transfer: the engine's record (state, kind of
\* failure, chunks sent or received, file-cancel messages sent, the callbacks
\* fired so far) and the app's this.currentTransfer and last toast
NoTransferRecord ==
  [state |-> "none", kind |-> "", chunks |-> 0, cancelSent |-> 0,
   events |-> <<>>, currentTransfer |-> FALSE, toast |-> ""]
NoTe == [side \in TeSides |-> NoTransferRecord]

\* the control plane (through the room server) and the data channel
NoChan == [side \in TeSides |-> [ctl |-> <<>>, data |-> <<>>]]
TeOff == te = NoTe /\ chan = NoChan

\* new WebRTCManager(...): incomingTransfers is an empty Map; the receiving
\* progress modal shows nothing
NoIncoming == [peerId \in {} |-> 0]
NoStart == [peerId |-> 0, fileId |-> 0]
StartOff == incomingTransfers = NoIncoming /\ receivingModal = NoStart

\* the clients of a room before any of them is started
Apps == {"a1", "a2"}
NoApp == [started |-> FALSE, peers |-> [i \in {} |-> NoAtt], ws |-> 0, peerId |-> 0,
          timers |-> 0, deviceName |-> ""]
NoApps == [c \in Apps |-> NoApp]
MirrorOff == apps = NoApps /\ ends = <<>>

\* no file is being streamed
NoFile == [size |-> 0, totalChunks |-> 0, seq |-> 0, frames |-> <<>>, state |-> "none"]
NoIncomingFile ==
  [size |-> 0, totalChunks |-> 0, handled |-> 0, received |-> 0, bytesDone |-> 0,
   lastLen |-> 0, state |-> "none"]
ChunkOff == outgoing = NoFile /\ incoming = NoIncomingFile

\* nothing is being sent
NoSend == [peerId |-> 0, fileId |-> 0, state |-> "none"]
BusyOff == sending = NoSend

\* no chat: no entries, no panel
ChatOff ==
  /\ messageHistory = <<>>
  /\ textSends = <<>>
  /\ currentChatPeer = 0
  /\ chatInputDisabled = FALSE

\* CloudDrop.constructor
ClientOff ==
  /\ cws = <<>>
  /\ thisWs = 0
  /\ timers = 0
  /\ attempts = 0
  /\ roomPassword = NULL
  /\ roomPasswordHash = NULL
  /\ isSecureRoom = FALSE
  /\ joinModal = FALSE
  /\ peers = NoPeers
  /\ trustedDevices = {}
  /\ savedTrustedDevices = {}
  /\ pendingFileRequest = NoRequest
  /\ currentTransfer = NoTransfer
  /\ receiveModal = FALSE
  /\ requests = <<>>
  /\ responses = <<>>
  /\ clast = NoClientEvent
  /\ managers = <<>>
  /\ thisWebrtc = 0
  /\ PcmOff
  /\ FifoOff
  /\ TeOff
  /\ StartOff
  /\ MirrorOff
  /\ ChunkOff
  /\ BusyOff
  /\ ChatOff

----------------------------------------------------------------------------
(* Actions of the room server *)

\* Room.constructor: the hash is loaded from storage before any event
InitServer ==
  /\ storage \in {NULL, "h1"}
  /\ passwordHash = storage
  /\ reqs = 0
  /\ okArgs = <<>>
  /\ sockets = <<>>
  /\ nextId = 0
  /\ last = Idle
  /\ sent = <<>>

\* Room.handleSetPassword up to `await request.json()`; reqs counts the
\* requests waiting for their body
SetPasswordBegin(method) ==
  /\ Ready
  /\ reqs < MaxReqs
  /\ LET res == IF method # "POST" THEN "405"
                ELSE IF passwordHash # NULL THEN "fail"
                ELSE "reading"
     IN /\ reqs' = IF res = "reading" THEN reqs + 1 ELSE reqs
        /\ last' = Event("set-password", 0, 0, NoMsg, method, res)
  /\ sent' = <<>>
  /\ UNCHANGED <<passwordHash, storage, okArgs, sockets, nextId>>
  /\ UNCHANGED clientVars

\* a set-password that closes the sockets accepted before the password
SetPasswordBodyClosing(body) ==
  /\ Ready
  /\ reqs > 0
  /\ reqs' = reqs - 1
  /\ IF body \in Hashes
     THEN /\ passwordHash' = body
          /\ storage' = body
          /\ okArgs' = Append(okArgs, body)
          /\ last' = Event("set-password-body", 0, 0, NoMsg, body, "ok")
          /\ sockets' = [s \in 1..Len(sockets) |->
                           IF sockets[s].rs = "OPEN"
                           THEN [sockets[s] EXCEPT !.rs = "CLOSING"] ELSE sockets[s]]
          /\ sent' = SeqFilter([s \in 1..Len(sockets) |-> <<s, CloseFrame(4001)>>],
                               {<<s, CloseFrame(4001)>> : s \in {t \in 1..Len(sockets) :
                                                                  sockets[t].rs = "OPEN"}})
     ELSE /\ last' = Event("set-password-body", 0, 0, NoMsg, body, "fail")
          /\ sent' = <<>>
          /\ UNCHANGED <<passwordHash, storage, okArgs, sockets>>
  /\ UNCHANGED nextId
  /\ UNCHANGED clientVars

\* Room.handleSetPassword from the moment the body has been read.  body is
\* a hash, "" (passwordHash missing, empty or not a string) or "garbage"
\* (request.json() rejects)
SetPasswordBody(body) ==
  /\ Ready
  /\ reqs > 0
  /\ reqs' = reqs - 1
  /\ IF body \in Hashes
     THEN /\ passwordHash' = body
          /\ storage' = body
          /\ okArgs' = Append(okArgs, body)
          /\ last' = Event("set-password-body", 0, 0, NoMsg, body, "ok")
     ELSE /\ last' = Event("set-password-body", 0, 0, NoMsg, body, "fail")
          /\ UNCHANGED <<passwordHash, storage, okArgs>>
  /\ sent' = <<>>
  /\ UNCHANGED <<sockets, nextId>>
  /\ UNCHANGED clientVars

\* a check-password that always answers true
HasPasswordAlways(hash) == TRUE

\* hasPassword: this.passwordHash !== null
HasPassword(hash) == hash # NULL

\* Room.handleCheckPassword, whatever the method of the request
HandleCheckPassword ==
  /\ Ready
  /\ last' = Event("check-password", 0, 0, NoMsg, "",
                   IF HasPassword(passwordHash) THEN "true" ELSE "false")
  /\ sent' = <<>>
  /\ UNCHANGED <<passwordHash, storage, reqs, okArgs, sockets, nextId>>
  /\ UNCHANGED clientVars

\* Room.handleWebSocket
HandleWebSocket(upgrade, provided) ==
  IF ~upgrade
  THEN /\ Ready
       /\ last' = Event("upgrade", 0, 0, NoMsg, provided, "426")
       /\ sent' = <<>>
       /\ UNCHANGED <<passwordHash, storage, reqs, okArgs, sockets, nextId>>
       /\ UNCHANGED clientVars
  ELSE /\ Ready
       /\ Len(sockets) < MaxSockets
       /\ LET ws == Len(sockets) + 1
              code == GateCode(passwordHash, provided)
          IN IF code # 0
             THEN /\ sockets' = Append(sockets, [NewSocket EXCEPT !.rs = "CLOSING"])
                  /\ sent' = <<<<ws, [Frame("error") EXCEPT
                                        !.error = GateError(code)]>>,
                              <<ws, CloseFrame(code)>>>>
                  /\ last' = Event("upgrade", ws, 0, NoMsg, provided, "101")
             ELSE /\ sockets' = Append(sockets, NewSocket)
                  /\ sent' = <<>>
                  /\ last' = Event("upgrade", ws, 0, NoMsg, provided, "101")
       /\ UNCHANGED <<passwordHash, storage, reqs, okArgs, nextId>>
       /\ UNCHANGED clientVars

\* Room.webSocketMessage: a frame from the client of ws; frames keep coming
\* until the client's own close arrives, also after the server called close()
WebSocketMessage(ws, msg, genName) ==
  /\ Ready
  /\ ws \in GetWebSockets(sockets)
  /\ msg.type = "join" /\ msg.hasData => nextId < MaxIds
  /\ LET r == Dispatch(sockets, ws, msg, nextId + 1, genName)
     IN /\ sockets' = r.socks
        /\ sent' = r.out
        /\ nextId' = IF r.socks[ws].att.id = nextId + 1 THEN nextId + 1 ELSE nextId
        /\ last' = Event("message", ws, sockets[ws].att.id, msg, "", "")
  /\ UNCHANGED <<passwordHash, storage, reqs, okArgs>>
  /\ UNCHANGED clientVars

\* what the runtime does with a socket once its close or error handler ran
Dropped == [rs |-> "GONE", att |-> NoAtt]

\* Room.webSocketClose: the client's close arrived (or the connection broke)
WebSocketClose(ws) ==
  /\ Ready
  /\ ws \in GetWebSockets(sockets)
  /\ LET r == HandleLeave([sockets EXCEPT ![ws].rs = "CLOSING"], ws)
     IN /\ sockets' = [r.socks EXCEPT ![ws] = Dropped]
        /\ sent' = r.out
  /\ last' = Event("close", ws, sockets[ws].att.id, NoMsg, "", "")
  /\ UNCHANGED <<passwordHash, storage, reqs, okArgs, nextId>>
  /\ UNCHANGED clientVars

\* Room.webSocketError
WebSocketError(ws) ==
  /\ Ready
  /\ ws \in GetWebSockets(sockets)
  /\ LET r == HandleLeave([sockets EXCEPT ![ws].rs = "CLOSING"], ws)
     IN /\ sockets' = [r.socks EXCEPT ![ws] = Dropped]
        /\ sent' = r.out
  /\ last' = Event("error", ws, sockets[ws].att.id, NoMsg, "", "")
  /\ UNCHANGED <<passwordHash, storage, reqs, okArgs, nextId>>
  /\ UNCHANGED clientVars

\* a constructor that does not read state.storage
LoadPasswordHashNone(stored) == NULL

\* Room.constructor: storage.get('passwordHash') || null
LoadPasswordHash(stored) == IF stored = NULL \/ stored = "" THEN NULL ELSE stored

\* the instance is evicted while idle and constructed again for the next
\* event: the in-memory field is loaded anew, the accepted sockets and their
\* attachments are kept by the runtime, state.storage is durable
Hibernate ==
  /\ Ready
  /\ reqs = 0
  /\ passwordHash' = LoadPasswordHash(storage)
  /\ last' = Event("hibernate", 0, 0, NoMsg, "", "")
  /\ sent' = <<>>
  /\ UNCHANGED <<storage, reqs, okArgs, sockets, nextId>>
  /\ UNCHANGED clientVars

\* the frames and the response of the handler that ran leave the server
Transmit ==
  /\ ~Ready
  /\ last' = Idle
  /\ sent' = <<>>
  /\ UNCHANGED <<passwordHash, storage, reqs, okArgs, sockets, nextId>>
  /\ UNCHANGED clientVars

NextPassword ==
  \/ \E method \in {"POST", "GET"} : SetPasswordBegin(method)
  \/ \E body \in Hashes \cup {"", "garbage"} : SetPasswordBody(body)
  \/ HandleCheckPassword
  \/ Transmit

NextRoom(msgs) ==
  \/ \E upgrade \in BOOLEAN, provided \in Hashes \cup {NULL, ""} :
       HandleWebSocket(upgrade, provided)
  \/ \E ws \in 1..MaxSockets, msg \in msgs :
       \E genName \in IF msg.type = "join" /\ msg.join.name = "" /\ msg.hasData
                      THEN GeneratedNames ELSE {""} :
         WebSocketMessage(ws, msg, genName)
  \/ \E ws \in 1..MaxSockets : WebSocketClose(ws)
  \/ \E ws \in 1..MaxSockets : WebSocketError(ws)
  \/ Transmit

Init == InitServer /\ ClientOff

\* the roster: upgrades, joins, closes and errors
Next == NextRoom(JoinMsgs)

Spec == Init /\ [][Next]_vars

\* forwarding: targeted messages among peers that joined with one profile
NextForward == NextRoom(TargetedMsgs \cup {m \in JoinMsgs : m.join.name = "Ann"})

SpecForward == Init /\ [][NextForward]_vars

\* set-password requests, overlapping
NextPwd == NextPassword

SpecPwd == Init /\ [][NextPwd]_vars

\* frames that do not parse and frames a handler throws on, among joins
NextDrop == NextRoom({m \in JoinMsgs : m.join.name = "Ann"} \cup OtherMsgs)

SpecDrop == Init /\ [][NextDrop]_vars

\* set-password, upgrades, joins and closes with the instance evicted and
\* constructed again in between
NextHibernate ==
  \/ NextPassword
  \/ NextRoom({m \in JoinMsgs : m.join.name = "Ann"})
  \/ Hibernate

SpecHibernate == Init /\ [][NextHibernate]_vars

\* the targeted messages the clients have sent so far
RECURSIVE SumUpTo(_, _)
SumUpTo(f, n) == IF n = 0 THEN 0 ELSE f[n] + SumUpTo(f, n - 1)
Submitted == SumUpTo(submitted, MaxSockets)

\* a frame as the client of a socket logs it on receipt; the data of the
\* n-th targeted message a client sends is n
Receipt(frame) == [from |-> frame.from, data |-> frame.data]

\* the frames of the sequence out that go to socket t, in order, as receipts
RECURSIVE ReceiptsOf(_, _)
ReceiptsOf(out, t) ==
  IF out = <<>> THEN <<>>
  ELSE IF Head(out)[1] = t /\ Head(out)[2].type \in ForwardedTypes
       THEN <<Receipt(Head(out)[2])>> \o ReceiptsOf(Tail(out), t)
       ELSE ReceiptsOf(Tail(out), t)

\* the n-th targeted message of the client of ws reaches the server: a socket
\* delivers the frames of its client in the order they were sent
SendTargeted(ws, type, to) ==
  /\ ws \in 1..MaxSockets
  /\ Submitted < MaxSubmitted
  /\ WebSocketMessage(ws, ClientMsg(type, to, 0, TRUE, submitted[ws] + 1, NoAtt), "")

\* the frames of the handler that ran leave the server and reach the clients
\* of their sockets, every socket keeping the order they were sent in
TransmitFifo ==
  /\ ~Ready
  /\ last' = Idle
  /\ sent' = <<>>
  /\ submitted' =
       IF last.op = "message" /\ last.msg.wellFormed
          /\ last.msg.type \in ForwardedTypes
       THEN [submitted EXCEPT ![last.ws] = @ + 1]
       ELSE submitted
  /\ delivered' = [t \in 1..MaxSockets |-> delivered[t] \o ReceiptsOf(sent, t)]
  /\ UNCHANGED <<passwordHash, storage, reqs, okArgs, sockets, nextId>>
  /\ UNCHANGED <<connVars, fileVars, peers, clast, pcmVars, rtcVars, teVars, startVars,
                 mirrorVars, chunkVars, busyVars, chatVars>>

\* clients that join and send their targeted messages one after another
NextFifo ==
  \/ HandleWebSocket(TRUE, NULL)
  \/ \E ws \in 1..MaxSockets, msg \in {m \in JoinMsgs : m.join.name = "Ann"} :
       WebSocketMessage(ws, msg, "")
  \/ \E ws \in 1..MaxSockets, type \in ForwardedTypes, to \in 1..MaxIds :
       SendTargeted(ws, type, to)
  \/ \E ws \in 1..MaxSockets : WebSocketClose(ws)
  \/ TransmitFifo

\* a room without a password
InitFifo == InitServer /\ ClientOff /\ storage = NULL

SpecFifo == InitFifo /\ [][NextFifo]_vars

----------------------------------------------------------------------------
(* Claims about the room server *)

\* the sockets the server can still send to that carry a peer-id
LivePeers == {s \in Sockets : sockets[s].rs = "OPEN" /\ sockets[s].att.id # 0}

\* the roster as a later join would list it: the attachments of the active
\* peers in Map order
Roster(socks) ==
  LET ap == GetActivePeers(socks)
  IN [i \in 1..Len(ap) |-> PeerInfo(socks[ap[i]].att)]

\* the frames of the last handler, as a set of <<socket, frame>>
SentSet == {sent[i] : i \in 1..Len(sent)}

\* C1: among any set-password requests, however they overlap, at most one is
\* answered success:true, a request that starts after a success is answered
\* success:false, and the stored hash is the argument of the first success.
C1_SetPasswordOnce ==
  /\ Len(okArgs) <= 1
  /\ (last.op = "set-password" /\ last.arg = "POST" /\ okArgs # <<>>)
       => last.res = "fail"
  /\ okArgs # <<>> => (passwordHash = okArgs[1] /\ storage = okArgs[1])

\* C2: an upgrade to a room with a password is admitted only with the stored
\* hash; with none it gets the error PASSWORD_REQUIRED and close code 4001,
\* with another one PASSWORD_INCORRECT and 4002; without a password every
\* upgrade is admitted.
C2_PasswordGate ==
  (last.op = "upgrade" /\ last.res = "101") =>
    LET ws == last.ws
        provided == last.arg
        Rejected(error, code) ==
          /\ sockets[ws].rs = "CLOSING"
          /\ sent = <<<<ws, [Frame("error") EXCEPT !.error = error]>>,
                      <<ws, CloseFrame(code)>>>>
        Admitted == sockets[ws].rs = "OPEN" /\ sent = <<>>
    IN /\ passwordHash = NULL => Admitted
       /\ (passwordHash # NULL /\ provided = passwordHash) => Admitted
       /\ (passwordHash # NULL /\ provided \in {NULL, ""})
            => Rejected("PASSWORD_REQUIRED", 4001)
       /\ (passwordHash # NULL /\ provided \notin {NULL, "", passwordHash})
            => Rejected("PASSWORD_INCORRECT", 4002)

C2_Witness ==
  /\ last.op = "upgrade"
  /\ last.res = "101"
  /\ passwordHash = "h1"
  /\ last.arg = "h2"
  /\ sockets[last.ws].rs = "CLOSING"
  /\ \E s \in Sockets : s # last.ws /\ sockets[s].rs = "OPEN"

\* C3: the peers array of every joined frame lists exactly the peers live in
\* the room other than the recipient: each once, not the recipient, and no
\* peer whose socket has closed.
C3_JoinedRosterExact ==
  \A i \in 1..Len(sent) :
    sent[i][2].type = "joined" =>
      LET to == sent[i][1]
          roster == sent[i][2].peers
      IN /\ \A j, k \in 1..Len(roster) : roster[j].id = roster[k].id => j = k
         /\ \A j \in 1..Len(roster) : roster[j].id # sent[i][2].peerId
         /\ {roster[j] : j \in 1..Len(roster)}
              = {PeerInfo(sockets[s].att) : s \in LivePeers \ {to}}

\* C4: a forwarded-type message from a peer S addressed to a live peer T puts
\* exactly one frame on the wire, to T, with the type and data of the message
\* and from = S's server-assigned id, whatever from S wrote.
C4_ForwardExactlyOne ==
  (/\ last.op = "message"
   /\ last.msg.wellFormed
   /\ last.msg.type \in ForwardedTypes
   /\ last.id # 0) =>
    \A t \in LivePeers :
      sockets[t].att.id = last.msg.to =>
        sent = <<<<t, [Frame(last.msg.type) EXCEPT !.from = last.id,
                                                   !.data = last.msg.data]>>>>

C4_Witness ==
  /\ last.op = "message"
  /\ last.msg.type = "file-request"
  /\ last.id # 0
  /\ last.msg.from # last.id
  /\ Len(sent) = 1
  /\ sent[1][1] # last.ws
  /\ Cardinality(LivePeers) = 3

\* C5: when a socket joins, every other live peer gets a peer-joined frame
\* with the new peer's id, name, deviceType and browserInfo and the joiner
\* gets none; when a joined peer's socket closes or errors, every remaining
\* live peer gets a peer-left frame with its id.
C5_JoinLeaveBroadcast ==
  /\ (last.op = "message" /\ last.msg.type = "join" /\ last.msg.hasData) =>
       LET ws == last.ws
           peerJoined ==
             [Frame("peer-joined") EXCEPT !.peer = PeerInfo(sockets[ws].att)]
       IN /\ sockets[ws].att.id # 0
          /\ \A s \in LivePeers \ {ws} : <<s, peerJoined>> \in SentSet
          /\ \A i \in 1..Len(sent) :
               sent[i][1] = ws => sent[i][2].type # "peer-joined"
  /\ (last.op \in {"close", "error"} /\ last.id # 0) =>
       \A s \in LivePeers :
         <<s, [Frame("peer-left") EXCEPT !.peer = [NoAtt EXCEPT !.id = last.id]]>>
           \in SentSet

\* C20: check-password answers hasPassword = true exactly when a hash is set
\* for the room, which is the hash in durable storage, set by a set-password
\* that succeeded or there since before the instance was constructed; the
\* request changes nothing of the room.
C20_CheckPassword ==
  [][last'.op = "check-password" =>
       /\ last'.res \in {"true", "false"}
       /\ last'.res = "true" <=> storage # NULL
       /\ okArgs # <<>> => last'.res = "true"
       /\ UNCHANGED <<passwordHash, storage, reqs, okArgs, sockets, nextId>>]_vars

\* check-password answered true after a set-password succeeded, while
\* another set-password is still reading its body
C20_Witness ==
  /\ last.op = "check-password"
  /\ last.res = "true"
  /\ okArgs = <<"h2">>
  /\ reqs > 0

\* C15: what the client of a socket T received from one peer S is in the
\* order S sent it, each message at most once: of two messages S sent to T the
\* earlier one is never received after the later one, whatever their types.
C15_FifoPerPair ==
  \A t \in 1..MaxSockets :
    \A i, j \in 1..Len(delivered[t]) :
      (i < j /\ delivered[t][i].from = delivered[t][j].from) =>
        delivered[t][i].data < delivered[t][j].data

\* a client received two messages from one peer and one from another peer
\* in between
C15_Witness ==
  \E t \in 1..MaxSockets :
    /\ Len(delivered[t]) = 3
    /\ delivered[t][1].from = delivered[t][3].from
    /\ delivered[t][1].from # delivered[t][2].from
    /\ delivered[t][3].data = 2

\* C16: a message of a forwarded type whose to is missing or names no live
\* peer puts no frame on the wire, to the sender or to anybody else, and leaves
\* the sockets, their attachments and the password hash as they were.
C16_NoLiveTargetDropped ==
  [][( /\ last'.op = "message"
       /\ last'.msg.wellFormed
       /\ last'.msg.type \in ForwardedTypes
       /\ ~\E t \in LivePeers : sockets[t].att.id = last'.msg.to )
     => /\ sent' = <<>>
        /\ sockets' = sockets
        /\ passwordHash' = passwordHash
        /\ storage' = storage]_vars

\* a joined peer addressed a peer-id that was handed out and whose socket has
\* closed since, while two peers are live
C16_Witness ==
  /\ last.op = "message"
  /\ last.msg.type = "relay-data"
  /\ last.id # 0
  /\ last.msg.to \in 1..nextId
  /\ ~\E t \in LivePeers : sockets[t].att.id = last.msg.to
  /\ sent = <<>>
  /\ Cardinality(LivePeers) >= 2

\* Room.webSocketMessage ends in its catch block: JSON.parse throws on the
\* frame, or the handler throws (join and name-changed read a field of
\* msg.data; handleJoin sends on the socket of the frame)
Throws(socks, ws, msg) ==
  \/ ~msg.wellFormed
  \/ msg.type = "join" /\ ~msg.hasData
  \/ msg.type = "join" /\ msg.hasData /\ socks[ws].rs # "OPEN"
  \/ msg.type = "name-changed" /\ socks[ws].att.id # 0 /\ ~msg.hasData

\* C17: a frame that does not parse, or whose handling throws, is dropped as
\* one frame: no frame is sent, the socket is not closed, and the sockets and
\* their attachments, hence the roster, are as they were, so that the frames
\* that follow on the socket are handled as if it had not arrived.
C17_BadFrameDropped ==
  [][( /\ last'.op = "message"
       /\ Throws(sockets, last'.ws, last'.msg) )
     => /\ sent' = <<>>
        /\ sockets' = sockets
        /\ Roster(sockets') = Roster(sockets)]_vars

\* C11: when the instance is constructed again after hibernation, the live
\* peers with their ids and names are the same, the password hash that was
\* set is still the set hash, and the gate decides every upgrade as before.
C11_HibernationKeepsRoom ==
  [][last'.op = "hibernate" =>
       /\ passwordHash' = passwordHash
       /\ Roster(sockets') = Roster(sockets)
       /\ \A provided \in Hashes \cup {NULL, ""} :
            GateCode(passwordHash', provided) = GateCode(passwordHash, provided)]_vars

\* hibernation of a room whose password was set by set-password and that has
\* two joined peers
C11_Witness ==
  /\ last.op = "hibernate"
  /\ okArgs # <<>>
  /\ passwordHash = "h2"
  /\ Len(Roster(sockets)) >= 2

\* C22: the peer-id of a connection is assigned by its first join and never
\* changes while the socket lasts, also when a further join arrives on it, and
\* the peer record of a connection changes only through a name-changed of
\* that connection, which changes only the name.
C22_PeerIdStable ==
  [][\A s \in Sockets :
       (sockets[s].att.id # 0 /\ sockets'[s].rs # "GONE") =>
         /\ sockets'[s].att.id = sockets[s].att.id
         /\ sockets'[s].att # sockets[s].att =>
              /\ last'.op = "message"
              /\ last'.ws = s
              /\ last'.msg.type = "name-changed"
              /\ sockets'[s].att = [sockets[s].att EXCEPT !.name = last'.msg.data]]_vars

\* C23: when a joined peer P sends name-changed with name N, P's attachment
\* gets the name N and keeps its id, deviceType and browserInfo, no other
\* socket's attachment changes, every other live peer receives exactly one
\* name-changed frame with from = P's id and the name N and P receives none;
\* the stored name of a peer-id changes in no other way, and every joined
\* frame lists each peer with the name stored for it.
C23_NameChanged ==
  [][/\ ( /\ last'.op = "message"
          /\ last'.msg.wellFormed
          /\ last'.msg.type = "name-changed"
          /\ last'.msg.hasData
          /\ sockets[last'.ws].att.id # 0 ) =>
          LET p == last'.ws
              frame == [Frame("name-changed") EXCEPT !.from = sockets[p].att.id,
                                                     !.data = last'.msg.data]
          IN /\ sockets'[p].att = [sockets[p].att EXCEPT !.name = last'.msg.data]
             /\ sockets'[p].rs = sockets[p].rs
             /\ \A s \in Sockets \ {p} : sockets'[s] = sockets[s]
             /\ \A s \in LivePeers \ {p} :
                  Cardinality({i \in 1..Len(sent') : sent'[i][1] = s}) = 1
             /\ \A i \in 1..Len(sent') :
                  sent'[i][1] \in LivePeers \ {p} /\ sent'[i][2] = frame
     /\ \A s \in Sockets :
          ( /\ sockets[s].att.id # 0
            /\ sockets'[s].att.id = sockets[s].att.id
            /\ sockets'[s].att.name # sockets[s].att.name ) =>
            (last'.op = "message" /\ last'.ws = s /\ last'.msg.type = "name-changed")
     /\ \A i \in 1..Len(sent') :
          sent'[i][2].type = "joined" =>
            \A j \in 1..Len(sent'[i][2].peers) :
              \E s \in GetWebSockets(sockets') :
                sent'[i][2].peers[j] = PeerInfo(sockets'[s].att)]_vars

\* a peer joins after another peer changed its name, while a third is live:
\* the roster of its joined frame shows the new name
C23_Witness ==
  /\ last.op = "message"
  /\ last.msg.type = "join"
  /\ Cardinality(LivePeers) = 3
  /\ \E i \in 1..Len(sent) :
       /\ sent[i][2].type = "joined"
       /\ \E j \in 1..Len(sent[i][2].peers) : sent[i][2].peers[j].name = "Zed"

\* C30: a socket the password gate rejected (the server has called close on
\* it) never has a peer-id; a frame arriving on it sends nothing and changes
\* nothing, no frame but the gate's error and close goes to it, and when its
\* close or error arrives no peer-left is sent.
C30_RejectedSocketNoPeer ==
  [][/\ \A s \in 1..Len(sockets') :
          sockets'[s].rs = "CLOSING" =>
            /\ sockets'[s].att.id = 0
            /\ (last'.op = "message" /\ last'.ws = s) =>
                 (sent' = <<>> /\ sockets' = sockets)
            /\ \A i \in 1..Len(sent') :
                 sent'[i][1] = s => sent'[i][2].type \in {"error", "close"}
     /\ \A s \in Sockets :
          ( /\ sockets[s].rs = "CLOSING"
            /\ last'.op \in {"close", "error"}
            /\ last'.ws = s ) => sent' = <<>>]_vars

----------------------------------------------------------------------------
(* The client's room-server socket (app.js) *)

MaxClientSockets == 4   \* WebSockets the client creates

Passwords == {"pw1", "pw2"}

\* cryptoManager.hashPasswordForServer(password, roomCode): a hash of the
\* password, distinct passwords giving distinct hashes
HashPasswordForServer(password) == IF password = "pw1" THEN "h1" ELSE "h2"

\* event.code of a close event: 1000 normal, 1006 connection lost,
\* 4001 / 4002 the server's password errors
CloseCodes == {1000, 1006, 4001, 4002}
PasswordCloseCodes == {4001, 4002}

\* the delay with exponential backoff: 3 s doubling up to 30 s
ReconnectDelayBackoff(n) ==
  IF n >= 5 THEN 30000 ELSE 3000 * (2 ^ (n - 1))

\* the delay handed to setTimeout by ws.onclose for the n-th consecutive
\* reconnect attempt: the code passes the same number every time
ReconnectDelay(n) == 3000

\* a connectWebSocket that never appends passwordHash to the URL
NewClientSocketNoHash(secure, hash) ==
  [rs |-> "CONNECTING", onclose |-> TRUE, hash |-> NULL]

\* new WebSocket(wsUrl): the URL carries passwordHash when isSecureRoom and
\* roomPasswordHash are both set
NewClientSocket(secure, hash) ==
  [rs |-> "CONNECTING", onclose |-> TRUE,
   hash |-> IF secure /\ hash # NULL THEN hash ELSE NULL]

\* CloudDrop.connectWebSocket
ConnectWebSocket(socks, secure, hash) == Append(socks, NewClientSocket(secure, hash))

\* new WebRTCManager(...): a manager without connections
NewWebRTCManager == {}

\* connectWebSocket ends with this.webrtc = new WebRTCManager(...)
CreateManager(mgrs) == Append(mgrs, NewWebRTCManager)

\* this.webrtc?.closeAll(): the connections of the manager this.webrtc
\* refers to are closed
CloseAll(mgrs, w) == IF w = 0 THEN mgrs ELSE [mgrs EXCEPT ![w] = {}]

\* this.webrtc.prewarmConnection(peerId), when this.webrtc is set
PrewarmConnection(mgrs, w, peerId) ==
  IF w = 0 THEN mgrs ELSE [mgrs EXCEPT ![w] = @ \cup {peerId}]

\* this.webrtc.closeConnection(peerId)
CloseConnection(mgrs, w, peerId) ==
  IF w = 0 THEN mgrs ELSE [mgrs EXCEPT ![w] = @ \ {peerId}]

\* a frame of the room server can arrive: a socket of the client is open
Connected == \E s \in 1..Len(cws) : cws[s].rs = "OPEN"

\* CloudDrop.switchRoom up to connectWebSocket: the old socket loses its
\* onclose handler and is closed
CloseOld(socks, w) ==
  IF w = 0 THEN socks
  ELSE [socks EXCEPT ![w].onclose = FALSE, ![w].rs = "CLOSED"]

\* CloudDrop.init: with a room in the URL that requires a password the join
\* modal is shown and nothing connects; otherwise connectWebSocket
InitClient ==
  /\ \E requiresPassword \in BOOLEAN :
       IF requiresPassword
       THEN /\ cws = <<>> /\ thisWs = 0 /\ joinModal = TRUE
            /\ managers = <<>> /\ thisWebrtc = 0
       ELSE /\ cws = ConnectWebSocket(<<>>, FALSE, NULL) /\ thisWs = 1
            /\ joinModal = FALSE
            /\ managers = CreateManager(<<>>) /\ thisWebrtc = 1
  /\ timers = 0
  /\ attempts = 0
  /\ roomPassword = NULL
  /\ roomPasswordHash = NULL
  /\ isSecureRoom = FALSE
  /\ peers = NoPeers
  /\ trustedDevices = {}
  /\ savedTrustedDevices = {}
  /\ pendingFileRequest = NoRequest
  /\ currentTransfer = NoTransfer
  /\ receiveModal = FALSE
  /\ requests = <<>>
  /\ responses = <<>>
  /\ clast = NoClientEvent

\* the room server is not part of the client's specifications
ServerOff ==
  /\ storage = NULL
  /\ passwordHash = NULL
  /\ reqs = 0
  /\ okArgs = <<>>
  /\ sockets = <<>>
  /\ nextId = 0
  /\ last = Idle
  /\ sent = <<>>

\* ws.onopen: the peer table is cleared and join is sent
WsOnOpen(s) ==
  /\ s \in 1..Len(cws)
  /\ cws[s].rs = "CONNECTING"
  /\ cws' = [cws EXCEPT ![s].rs = "OPEN"]
  /\ peers' = NoPeers
  /\ attempts' = 0
  /\ managers' = CloseAll(managers, thisWebrtc)
  /\ clast' = ClientEvent("open", s, 0, 0, 0, 0, "", "")
  /\ UNCHANGED <<thisWs, timers, roomPassword, roomPasswordHash, isSecureRoom,
                 joinModal, fileVars, serverVars, mirrorVars, chunkVars, busyVars, chatVars, pcmVars, thisWebrtc, fifoVars,
                 teVars, startVars>>

\* ws.onmessage with an error frame PASSWORD_REQUIRED / PASSWORD_INCORRECT:
\* clearRoomPassword, and the frame is not handed to handleSignaling
WsOnMessageError(s) ==
  /\ s \in 1..Len(cws)
  /\ cws[s].rs = "OPEN"
  /\ roomPassword' = NULL
  /\ roomPasswordHash' = NULL
  /\ isSecureRoom' = FALSE
  /\ clast' = ClientEvent("error-frame", s, 0, 0, 0, 0, "", "")
  /\ UNCHANGED <<cws, thisWs, timers, attempts, joinModal, peers, fileVars,
                 serverVars, mirrorVars, chunkVars, busyVars, chatVars, pcmVars, rtcVars, fifoVars, teVars, startVars>>

\* ws.onclose without the test of event.code: every close schedules
\* connectWebSocket and the password stays
WsOnCloseAlwaysReconnect(s, code) ==
  /\ s \in 1..Len(cws)
  /\ cws[s].rs \in {"CONNECTING", "OPEN"}
  /\ cws[s].rs = "CONNECTING" => code = 1006
  /\ cws[s].onclose
  /\ cws' = [cws EXCEPT ![s].rs = "CLOSED"]
  /\ timers' = timers + 1
  /\ attempts' = attempts + 1
  /\ clast' = ClientEvent("close", s, code, attempts + 1,
                          ReconnectDelay(attempts + 1), 0, "", "timer")
  /\ UNCHANGED <<roomPassword, roomPasswordHash, isSecureRoom, joinModal>>
  /\ UNCHANGED <<thisWs, peers, fileVars, serverVars, mirrorVars, chunkVars, busyVars, chatVars, pcmVars, rtcVars, fifoVars, teVars, startVars>>

\* ws.onclose(event): the socket closed without the client closing it.  A
\* password close code clears the password and shows the join modal; any
\* other code schedules connectWebSocket
WsOnClose(s, code) ==
  /\ s \in 1..Len(cws)
  /\ cws[s].rs \in {"CONNECTING", "OPEN"}
  /\ cws[s].rs = "CONNECTING" => code = 1006
  /\ cws[s].onclose
  /\ cws' = [cws EXCEPT ![s].rs = "CLOSED"]
  /\ IF code \in PasswordCloseCodes
     THEN /\ roomPassword' = NULL
          /\ roomPasswordHash' = NULL
          /\ isSecureRoom' = FALSE
          /\ joinModal' = TRUE
          /\ clast' = ClientEvent("close", s, code, 0, 0, 0, "", "modal")
          /\ UNCHANGED <<timers, attempts>>
     ELSE /\ timers' = timers + 1
          /\ attempts' = attempts + 1
          /\ clast' = ClientEvent("close", s, code, attempts + 1,
                                  ReconnectDelay(attempts + 1), 0, "", "timer")
          /\ UNCHANGED <<roomPassword, roomPasswordHash, isSecureRoom, joinModal>>
  /\ UNCHANGED <<thisWs, peers, fileVars, serverVars, mirrorVars, chunkVars, busyVars, chatVars, pcmVars, rtcVars, fifoVars, teVars, startVars>>

\* the reconnect timer fires: connectWebSocket
TimerFires ==
  /\ timers > 0
  /\ Len(cws) < MaxClientSockets
  /\ timers' = timers - 1
  /\ cws' = ConnectWebSocket(cws, isSecureRoom, roomPasswordHash)
  /\ thisWs' = Len(cws) + 1
  /\ managers' = CreateManager(managers)
  /\ thisWebrtc' = Len(managers) + 1
  /\ incomingTransfers' = NoIncoming
  /\ clast' = ClientEvent("timer", Len(cws) + 1, 0, 0, 0, 0, "", "")
  /\ UNCHANGED <<attempts, roomPassword, roomPasswordHash, isSecureRoom,
                 joinModal, peers, fileVars, serverVars, mirrorVars, chunkVars, busyVars, chatVars, pcmVars, fifoVars, teVars,
                 receivingModal>>

\* joinRoomConfirm with a password: joinSecureRoom, then switchRoom
JoinSecureRoom(password) ==
  /\ Len(cws) < MaxClientSockets
  /\ roomPassword' = password
  /\ roomPasswordHash' = HashPasswordForServer(password)
  /\ isSecureRoom' = TRUE
  /\ joinModal' = FALSE
  /\ peers' = NoPeers
  /\ cws' = ConnectWebSocket(CloseOld(cws, thisWs), TRUE,
                             HashPasswordForServer(password))
  /\ thisWs' = Len(cws) + 1
  /\ managers' = CreateManager(CloseAll(managers, thisWebrtc))
  /\ thisWebrtc' = Len(managers) + 1
  /\ incomingTransfers' = NoIncoming
  /\ clast' = ClientEvent("join-secure", Len(cws) + 1, 0, 0, 0, 0, "", "")
  /\ UNCHANGED <<timers, attempts, fileVars, serverVars, mirrorVars, chunkVars, busyVars, chatVars, pcmVars, fifoVars, teVars,
                 receivingModal>>

\* refreshRoomBtn: clearRoomPassword, then switchRoom to a new room code
RefreshRoom ==
  /\ Len(cws) < MaxClientSockets
  /\ roomPassword' = NULL
  /\ roomPasswordHash' = NULL
  /\ isSecureRoom' = FALSE
  /\ peers' = NoPeers
  /\ cws' = ConnectWebSocket(CloseOld(cws, thisWs), FALSE, NULL)
  /\ thisWs' = Len(cws) + 1
  /\ managers' = CreateManager(CloseAll(managers, thisWebrtc))
  /\ thisWebrtc' = Len(managers) + 1
  /\ incomingTransfers' = NoIncoming
  /\ clast' = ClientEvent("refresh", Len(cws) + 1, 0, 0, 0, 0, "", "")
  /\ UNCHANGED <<timers, attempts, joinModal, fileVars, serverVars, mirrorVars, chunkVars, busyVars, chatVars, pcmVars,
                 fifoVars, teVars, receivingModal>>

\* createSecureRoomConfirm: createSecureRoom (POST set-password, answered
\* success or not), then switchRoom when it succeeded
CreateSecureRoom(password, success) ==
  /\ Len(cws) < MaxClientSockets
  /\ IF success
     THEN /\ roomPassword' = password
          /\ roomPasswordHash' = HashPasswordForServer(password)
          /\ isSecureRoom' = TRUE
          /\ peers' = NoPeers
          /\ cws' = ConnectWebSocket(CloseOld(cws, thisWs), TRUE,
                                     HashPasswordForServer(password))
          /\ thisWs' = Len(cws) + 1
          /\ managers' = CreateManager(CloseAll(managers, thisWebrtc))
          /\ thisWebrtc' = Len(managers) + 1
          /\ incomingTransfers' = NoIncoming
          /\ clast' = ClientEvent("create-secure", Len(cws) + 1, 0, 0, 0, 0, "", "ok")
     ELSE /\ clast' = ClientEvent("create-secure", 0, 0, 0, 0, 0, "", "fail")
          /\ UNCHANGED <<roomPassword, roomPasswordHash, isSecureRoom, peers,
                         cws, thisWs, rtcVars, incomingTransfers>>
  /\ UNCHANGED <<timers, attempts, joinModal, fileVars, serverVars, mirrorVars, chunkVars, busyVars, chatVars, pcmVars,
                 fifoVars, teVars, receivingModal>>

InitConn ==
  /\ InitClient /\ ServerOff /\ PcmOff /\ FifoOff /\ TeOff /\ StartOff /\ MirrorOff
  /\ ChunkOff
  /\ BusyOff
  /\ ChatOff

NextConn ==
  \/ \E s \in 1..MaxClientSockets : WsOnOpen(s)
  \/ \E s \in 1..MaxClientSockets : WsOnMessageError(s)
  \/ \E s \in 1..MaxClientSockets, code \in CloseCodes : WsOnClose(s, code)
  \/ TimerFires
  \/ \E password \in Passwords : JoinSecureRoom(password)
  \/ \E password \in Passwords, success \in BOOLEAN :
       CreateSecureRoom(password, success)
  \/ RefreshRoom

SpecConn == InitConn /\ [][NextConn]_vars

----------------------------------------------------------------------------
(* Trusted devices and file requests on the client (app.js) *)

MaxRequests == 2   \* file-request frames the client receives
MaxPeerIds == 2    \* peer-ids in the client's peer table

\* UTF-16 code units (charCodeAt) of the strings peers are made of
CharCodes(str) ==
  CASE str = "Aa" -> <<65, 97>>
    [] str = "BB" -> <<66, 66>>
    [] str = "Zed" -> <<90, 101, 100>>
    [] str = "mobile" -> <<109, 111, 98, 105, 108, 101>>
    [] str = "desktop" -> <<100, 101, 115, 107, 116, 111, 112>>
    [] str = "Chrome" -> <<67, 104, 114, 111, 109, 101>>
    [] OTHER -> <<>>

PeerNames == {"Aa", "BB", "Zed"}

\* the peers a joined / peer-joined frame can describe: id filled in by AddPeer
PeerProfiles ==
  { [id |-> 0, name |-> "Aa", deviceType |-> "mobile", browserInfo |-> "Chrome"],
    [id |-> 0, name |-> "BB", deviceType |-> "mobile", browserInfo |-> "Chrome"],
    [id |-> 0, name |-> "Zed", deviceType |-> "desktop", browserInfo |-> ""] }

\* a 32-bit integer as its two 16-bit halves (two's complement)
Half == 65536
Zero32 == [hi |-> 0, lo |-> 0]
Int32 == [hi : 0..(Half - 1), lo : 0..(Half - 1)]

\* hash << 5
Shl5(h) ==
  LET l == h.lo * 32
  IN [lo |-> l % Half, hi |-> (h.hi * 32 + l \div Half) % Half]

\* a - b, then reduced to 32 bits as hash & hash does
Sub32(a, b) ==
  LET l == a.lo - b.lo
      borrow == IF l < 0 THEN 1 ELSE 0
  IN [lo |-> (l + Half) % Half, hi |-> (a.hi - b.hi - borrow + Half) % Half]

\* a + char, then reduced to 32 bits as hash & hash does
Add32(a, char) ==
  LET l == a.lo + char
  IN [lo |-> l % Half, hi |-> (a.hi + l \div Half) % Half]

\* the loop of getDeviceFingerprint from character i on; hash is a 32-bit
\* integer after every round (hash & hash)
RECURSIVE HashFrom(_, _, _)
HashFrom(hash, codes, i) ==
  IF i > Len(codes) \/ hash \notin Int32 THEN hash
  ELSE HashFrom(Add32(Sub32(Shl5(hash), hash), codes[i]), codes, i + 1)

RECURSIVE StripZeros(_)
StripZeros(digits) ==
  IF Len(digits) > 1 /\ Head(digits) = 0 THEN StripZeros(Tail(digits)) ELSE digits

Hex4(n) == <<n \div 4096, (n \div 256) % 16, (n \div 16) % 16, n % 16>>

\* hash.toString(16): a sign and the hexadecimal digits of the magnitude
ToString16(h) ==
  LET neg == h.hi >= 32768
      mlo == IF neg THEN (Half - h.lo) % Half ELSE h.lo
      mhi == IF neg THEN (Half - 1 - h.hi + (IF h.lo = 0 THEN 1 ELSE 0)) % Half
             ELSE h.hi
  IN [neg |-> neg, digits |-> StripZeros(Hex4(mhi) \o Hex4(mlo))]

\* CloudDrop.getDeviceFingerprint
GetDeviceFingerprint(peer) ==
  LET str == CharCodes(peer.name) \o <<124>> \o CharCodes(peer.deviceType)
               \o <<124>> \o CharCodes(peer.browserInfo)
  IN ToString16(HashFrom(Zero32, str, 1))

\* the trust store: the Map in memory and what localStorage holds of it
Store(memory, saved) == [memory |-> memory, saved |-> saved]

\* CloudDrop.loadTrustedDevices
LoadTrustedDevices(saved) == saved

\* CloudDrop.saveTrustedDevices
SaveTrustedDevices(memory) == Store(memory, memory)

\* a trustDevice that adds nothing
TrustDeviceNothing(store, peer) == store

\* CloudDrop.trustDevice
TrustDevice(store, peer) ==
  SaveTrustedDevices(store.memory \cup {GetDeviceFingerprint(peer)})

\* an untrustDevice that does not save
UntrustDeviceUnsaved(store, peer) ==
  Store(store.memory \ {GetDeviceFingerprint(peer)}, store.saved)

\* CloudDrop.untrustDevice
UntrustDeviceStore(store, peer) ==
  SaveTrustedDevices(store.memory \ {GetDeviceFingerprint(peer)})

\* a broken isDeviceTrusted: any stored fingerprint makes every peer trusted
IsDeviceTrustedAnyStored(peer) == trustedDevices # {}

\* an isDeviceTrusted that keeps to the device and forgets the name: a peer
\* is trusted when the store holds its device class and browser info under
\* any name
IsDeviceTrustedAnyName(peer) ==
  \E name \in PeerNames :
    GetDeviceFingerprint([peer EXCEPT !.name = name]) \in trustedDevices

\* CloudDrop.isDeviceTrusted
IsDeviceTrusted(peer) == GetDeviceFingerprint(peer) \in trustedDevices

\* webrtc.respondToFileRequest(peerId, fileId, accepted): the file-response
\* frame {type: "file-response", to, data: {fileId, accepted}}
RespondToFileRequest(peerId, fileId, accepted) ==
  [type |-> "file-response", to |-> peerId, fileId |-> fileId, accepted |-> accepted]

FileRequest(peerId, fileId) == [peerId |-> peerId, fileId |-> fileId]

\* a file-request frame as the client received it, and whether
\* handleFileRequest showed the confirmation prompt for it
Received(request, prompted) ==
  [peerId |-> request.peerId, fileId |-> request.fileId, prompted |-> prompted]

Transfer(peerId, fileId) == [peerId |-> peerId, fileId |-> fileId, direction |-> "receive"]

\* the client once it is connected: trustedDevices as loadTrustedDevices
\* finds them in localStorage
InitFileClient ==
  /\ cws = <<[rs |-> "OPEN", onclose |-> TRUE, hash |-> NULL]>>
  /\ thisWs = 1
  /\ managers = CreateManager(<<>>)
  /\ thisWebrtc = 1
  /\ timers = 0
  /\ attempts = 0
  /\ roomPassword = NULL
  /\ roomPasswordHash = NULL
  /\ isSecureRoom = FALSE
  /\ joinModal = FALSE
  /\ peers = NoPeers
  /\ savedTrustedDevices \in SUBSET {GetDeviceFingerprint(p) : p \in PeerProfiles}
  /\ trustedDevices = LoadTrustedDevices(savedTrustedDevices)
  /\ pendingFileRequest = NoRequest
  /\ currentTransfer = NoTransfer
  /\ receiveModal = FALSE
  /\ requests = <<>>
  /\ responses = <<>>
  /\ clast = NoClientEvent

\* the entry acceptFileRequest puts into this.webrtc.incomingTransfers
Incoming(fileId) == [fileId |-> fileId, confirmed |-> TRUE]

\* Map.set(peerId, entry): one entry per peer, the last one set
SetIncoming(map, peerId, entry) ==
  [i \in DOMAIN map \cup {peerId} |-> IF i = peerId THEN entry ELSE map[i]]

\* ui.showReceivingModal(name, size, mode) for a file of a peer
Start(peerId, fileId) == [peerId |-> peerId, fileId |-> fileId]

\* CloudDrop.acceptFileRequest as a function of the pending request
AcceptResult(pending) ==
  IF pending = NoRequest
  THEN [responses |-> responses, currentTransfer |-> currentTransfer,
        receiveModal |-> receiveModal, pending |-> pending,
        incomingTransfers |-> incomingTransfers,
        receivingModal |-> receivingModal]
  ELSE [responses |-> Append(responses,
                        RespondToFileRequest(pending.peerId, pending.fileId, TRUE)),
        currentTransfer |-> Transfer(pending.peerId, pending.fileId),
        receiveModal |-> FALSE,
        pending |-> NoRequest,
        incomingTransfers |-> SetIncoming(incomingTransfers, pending.peerId,
                                          Incoming(pending.fileId)),
        receivingModal |-> Start(pending.peerId, pending.fileId)]

\* CloudDrop.addPeer, from a joined or peer-joined frame
AddPeer(id, profile) ==
  /\ Connected
  /\ peers' = [i \in DOMAIN peers \cup {id} |->
                 IF i = id THEN [profile EXCEPT !.id = id] ELSE peers[i]]
  /\ managers' = PrewarmConnection(managers, thisWebrtc, id)
  /\ UNCHANGED <<connVars, fileVars, clast, serverVars, mirrorVars, chunkVars, busyVars, chatVars, pcmVars, thisWebrtc,
                 fifoVars, teVars, startVars>>

\* CloudDrop.removePeer, from a peer-left frame: the peer leaves the table
\* and its connection is closed; the pending file request and the prompt are
\* left alone.  Whether webrtc.closeConnection ends a transfer under way with
\* that peer (onTransferCancelled clears this.currentTransfer) is up to the
\* engine: either may happen
RemovePeer(id) ==
  /\ Connected
  /\ peers' = [i \in DOMAIN peers \ {id} |-> peers[i]]
  /\ managers' = CloseConnection(managers, thisWebrtc, id)
  /\ currentTransfer' \in {currentTransfer} \cup
                          (IF currentTransfer.peerId = id THEN {NoTransfer} ELSE {})
  /\ UNCHANGED <<connVars, trustedDevices, savedTrustedDevices, pendingFileRequest,
                 receiveModal, requests, responses, clast, serverVars, mirrorVars, chunkVars, busyVars, chatVars, pcmVars,
                 thisWebrtc, fifoVars, teVars, startVars>>

\* a handleNameChanged that keeps a renamed peer trusted: the fingerprint of
\* the new name is stored when that of the old name was
ClientNameChangedRetrusting(id, newName) ==
  /\ peers' = IF id \in DOMAIN peers THEN [peers EXCEPT ![id].name = newName]
              ELSE peers
  /\ LET store == IF id \in DOMAIN peers /\ IsDeviceTrusted(peers[id])
                  THEN TrustDevice(Store(trustedDevices, savedTrustedDevices),
                                   peers'[id])
                  ELSE Store(trustedDevices, savedTrustedDevices)
     IN /\ trustedDevices' = store.memory
        /\ savedTrustedDevices' = store.saved
  /\ UNCHANGED <<connVars, pendingFileRequest, currentTransfer, receiveModal,
                 requests, responses, clast, serverVars, mirrorVars, chunkVars, busyVars, chatVars, pcmVars, rtcVars,
                 fifoVars, teVars, startVars>>

\* CloudDrop.handleNameChanged, from a name-changed frame
ClientNameChanged(id, newName) ==
  /\ peers' = IF id \in DOMAIN peers THEN [peers EXCEPT ![id].name = newName]
              ELSE peers
  /\ UNCHANGED <<connVars, fileVars, clast, serverVars, mirrorVars, chunkVars, busyVars, chatVars, pcmVars, rtcVars, fifoVars, teVars, startVars>>

\* CloudDrop.handleFileRequest, from a file-request frame; the sender gives
\* every request a file id of its own
HandleFileRequest(peerId) ==
  /\ Len(requests) < MaxRequests
  /\ LET fileId == Len(requests) + 1
         request == FileRequest(peerId, fileId)
         r == AcceptResult(request)
         trusted == peerId \in DOMAIN peers /\ IsDeviceTrusted(peers[peerId])
     IN /\ requests' = Append(requests, Received(request, ~trusted))
        /\ IF trusted
           THEN /\ responses' = r.responses
                /\ currentTransfer' = r.currentTransfer
                /\ receiveModal' = r.receiveModal
                /\ pendingFileRequest' = r.pending
                /\ incomingTransfers' = r.incomingTransfers
                /\ receivingModal' = r.receivingModal
           ELSE /\ pendingFileRequest' = request
                /\ receiveModal' = TRUE
                /\ UNCHANGED <<responses, currentTransfer, startVars>>
  /\ UNCHANGED <<connVars, clast, peers, trustedDevices, savedTrustedDevices, serverVars, mirrorVars, chunkVars, busyVars, chatVars, pcmVars, rtcVars, fifoVars, teVars>>

\* receiveAccept click: acceptFileRequest
AcceptFileRequest ==
  /\ receiveModal
  /\ LET r == AcceptResult(pendingFileRequest)
     IN /\ responses' = r.responses
        /\ currentTransfer' = r.currentTransfer
        /\ receiveModal' = r.receiveModal
        /\ pendingFileRequest' = r.pending
        /\ incomingTransfers' = r.incomingTransfers
        /\ receivingModal' = r.receivingModal
  /\ UNCHANGED <<connVars, clast, peers, trustedDevices, savedTrustedDevices, requests, serverVars, mirrorVars, chunkVars, busyVars, chatVars, pcmVars, rtcVars, fifoVars, teVars>>

\* receiveDecline / receiveModalClose click: declineFileRequest
DeclineFileRequest ==
  /\ receiveModal
  /\ IF pendingFileRequest = NoRequest
     THEN UNCHANGED <<responses, receiveModal, pendingFileRequest>>
     ELSE /\ responses' = Append(responses,
                RespondToFileRequest(pendingFileRequest.peerId,
                                     pendingFileRequest.fileId, FALSE))
          /\ receiveModal' = FALSE
          /\ pendingFileRequest' = NoRequest
  /\ UNCHANGED <<connVars, clast, peers, trustedDevices, savedTrustedDevices, currentTransfer, requests,
                 serverVars, mirrorVars, chunkVars, busyVars, chatVars, pcmVars, rtcVars, fifoVars, teVars, startVars>>

\* receiveAlwaysAccept click: acceptAndTrustDevice
AcceptAndTrustDevice ==
  /\ receiveModal
  /\ IF pendingFileRequest = NoRequest
     THEN UNCHANGED <<trustedDevices, savedTrustedDevices, responses,
                      currentTransfer, receiveModal,
                      pendingFileRequest, startVars>>
     ELSE LET peerId == pendingFileRequest.peerId
              r == AcceptResult(pendingFileRequest)
              store == IF peerId \in DOMAIN peers
                       THEN TrustDevice(Store(trustedDevices, savedTrustedDevices),
                                        peers[peerId])
                       ELSE Store(trustedDevices, savedTrustedDevices)
          IN /\ trustedDevices' = store.memory
             /\ savedTrustedDevices' = store.saved
             /\ responses' = r.responses
             /\ currentTransfer' = r.currentTransfer
             /\ receiveModal' = r.receiveModal
             /\ pendingFileRequest' = r.pending
             /\ incomingTransfers' = r.incomingTransfers
             /\ receivingModal' = r.receivingModal
  /\ UNCHANGED <<connVars, clast, peers, requests, serverVars, mirrorVars, chunkVars, busyVars, chatVars, pcmVars, rtcVars, fifoVars, teVars>>

\* the trusted badge of a peer card, clicked and confirmed: untrustDevice
UntrustDevice(id) ==
  /\ id \in DOMAIN peers
  /\ IsDeviceTrusted(peers[id])
  /\ LET store == UntrustDeviceStore(Store(trustedDevices, savedTrustedDevices),
                                     peers[id])
     IN /\ trustedDevices' = store.memory
        /\ savedTrustedDevices' = store.saved
  /\ UNCHANGED <<connVars, clast, peers, pendingFileRequest, currentTransfer,
                 receiveModal, requests, responses, serverVars, mirrorVars, chunkVars, busyVars, chatVars, pcmVars, rtcVars, fifoVars, teVars, startVars>>

\* CloudDrop.removeTrustedDevice, from the list of trusted devices
RemoveTrustedDevice(fingerprint) ==
  /\ fingerprint \in trustedDevices
  /\ LET store == SaveTrustedDevices(trustedDevices \ {fingerprint})
     IN /\ trustedDevices' = store.memory
        /\ savedTrustedDevices' = store.saved
  /\ UNCHANGED <<connVars, clast, peers, pendingFileRequest, currentTransfer,
                 receiveModal, requests, responses, serverVars, mirrorVars, chunkVars, busyVars, chatVars, pcmVars, rtcVars, fifoVars, teVars, startVars>>

\* a click on the modal backdrop, or Escape: the prompt is hidden and
\* nothing else happens (ui.setupModalCloseHandlers)
DismissModal ==
  /\ receiveModal
  /\ receiveModal' = FALSE
  /\ UNCHANGED <<connVars, clast, peers, trustedDevices, savedTrustedDevices, pendingFileRequest,
                 currentTransfer, requests, responses, serverVars, mirrorVars, chunkVars, busyVars, chatVars, pcmVars, rtcVars, fifoVars, teVars, startVars>>

InitFile ==
  /\ InitFileClient /\ ServerOff /\ PcmOff /\ FifoOff /\ TeOff /\ StartOff /\ MirrorOff
  /\ ChunkOff
  /\ BusyOff
  /\ ChatOff

NextFile ==
  \/ \E id \in 1..MaxPeerIds, profile \in PeerProfiles : AddPeer(id, profile)
  \/ \E id \in 1..MaxPeerIds : RemovePeer(id)
  \/ \E id \in 1..MaxPeerIds, newName \in PeerNames : ClientNameChanged(id, newName)
  \/ \E peerId \in 1..(MaxPeerIds + 1) : HandleFileRequest(peerId)
  \/ AcceptFileRequest
  \/ DeclineFileRequest
  \/ AcceptAndTrustDevice
  \/ \E id \in 1..MaxPeerIds : UntrustDevice(id)
  \/ \E fingerprint \in trustedDevices : RemoveTrustedDevice(fingerprint)
  \/ DismissModal

SpecFile == InitFile /\ [][NextFile]_vars

\* the room-server socket closing and reconnecting while peers come and go
NextReconnect ==
  \/ \E s \in 1..MaxClientSockets : WsOnOpen(s)
  \/ \E s \in 1..MaxClientSockets, code \in CloseCodes : WsOnClose(s, code)
  \/ TimerFires
  \/ RefreshRoom
  \/ \E id \in 1..MaxPeerIds, profile \in PeerProfiles : AddPeer(id, profile)
  \/ \E id \in 1..MaxPeerIds : RemovePeer(id)

SpecReconnect == InitConn /\ [][NextReconnect]_vars

----------------------------------------------------------------------------
(* Claims about the client's room-server socket *)

C10_PasswordCloseNoReconnect ==
  [][\A s \in 1..Len(cws) :
       ( /\ cws[s].rs # "CLOSED"
         /\ cws'[s].rs = "CLOSED"
         /\ cws'[s].onclose
         /\ clast'.op = "close"
         /\ clast'.ws = s
         /\ clast'.code \in PasswordCloseCodes )
       => /\ timers' = timers
          /\ Len(cws') = Len(cws)
          /\ roomPassword' = NULL
          /\ roomPasswordHash' = NULL
          /\ isSecureRoom' = FALSE]_vars

C10_Witness ==
  /\ clast.op = "close"
  /\ clast.code = 4002
  /\ cws[clast.ws].hash = "h2"
  /\ roomPasswordHash = NULL
  /\ timers = 0

----------------------------------------------------------------------------
(* Claims about file requests and trusted devices *)

\* the file-response frames sent for a request
ResponsesTo(request) ==
  {j \in 1..Len(responses) :
     responses[j].to = request.peerId /\ responses[j].fileId = request.fileId}

\* C6: every file-request the receiver got is answered by exactly one
\* file-response with its fileId, addressed to the requesting peer, or it is
\* still the request awaiting the user's decision; also when a second request
\* arrives while an earlier one is awaiting the decision.
C6_EveryRequestAnswered ==
  \A i \in 1..Len(requests) :
    LET request == FileRequest(requests[i].peerId, requests[i].fileId)
        n == Cardinality(ResponsesTo(request))
    IN /\ n <= 1
       /\ n = 0 => pendingFileRequest = request
       /\ n = 1 => pendingFileRequest # request

\* C7: a file-request from a peer whose fingerprint is in the trust store is
\* answered at once with accepted = true and no confirmation prompt; for a
\* file-request from any other peer (untrusted, or not in the peer table) the
\* prompt is shown and nothing is sent, and a file-response is sent later only
\* by the user's decision on the prompt.
C7_TrustedAutoAccept ==
  [][ /\ Len(requests') = Len(requests) + 1 =>
           LET received == requests'[Len(requests')]
               request == FileRequest(received.peerId, received.fileId)
               trusted ==
                 /\ request.peerId \in DOMAIN peers
                 /\ GetDeviceFingerprint(peers[request.peerId]) \in trustedDevices
           IN IF trusted
              THEN /\ responses' = Append(responses,
                          RespondToFileRequest(request.peerId, request.fileId, TRUE))
                   /\ ~received.prompted
                   /\ ~receiveModal'
              ELSE /\ responses' = responses
                   /\ received.prompted
                   /\ receiveModal'
                   /\ pendingFileRequest' = request
      /\ (responses' # responses /\ requests' = requests) =>
           /\ receiveModal
           /\ pendingFileRequest # NoRequest
           /\ \E accepted \in BOOLEAN :
                responses' = Append(responses,
                  RespondToFileRequest(pendingFileRequest.peerId,
                                       pendingFileRequest.fileId, accepted))
    ]_vars

\* a peer named BB, trusted through the fingerprint it shares with Aa, was
\* answered without a prompt while another request is awaiting the decision
C7_Witness ==
  \E i \in 1..Len(requests) :
    /\ ~requests[i].prompted
    /\ requests[i].peerId \in DOMAIN peers
    /\ peers[requests[i].peerId].name = "BB"
    /\ \E j \in 1..Len(responses) :
         responses[j] = RespondToFileRequest(requests[i].peerId,
                                             requests[i].fileId, TRUE)
    /\ \E k \in 1..Len(requests) : requests[k].prompted /\ k # i

\* C28: accept-and-trust on a prompt answers the pending request with
\* accepted = true and, when the sender is in the peer table, has added the
\* sender's fingerprint to the trust store (in memory and saved) by the time
\* the response is sent, so that the sender is a trusted device from then on
\* and a file-request from a peer in the table whose fingerprint is in the
\* store is accepted without a prompt; when the sender is not in the peer
\* table the request is accepted as well and the trust store stays as it was.
C28_AcceptAndTrust ==
  [][ /\ (AcceptAndTrustDevice /\ pendingFileRequest # NoRequest) =>
           LET peerId == pendingFileRequest.peerId
           IN /\ responses' = Append(responses,
                     RespondToFileRequest(peerId, pendingFileRequest.fileId, TRUE))
              /\ pendingFileRequest' = NoRequest
              /\ IF peerId \in DOMAIN peers
                 THEN LET fingerprint == GetDeviceFingerprint(peers[peerId])
                      IN /\ trustedDevices' = trustedDevices \cup {fingerprint}
                         /\ savedTrustedDevices' = trustedDevices'
                         /\ GetDeviceFingerprint(peers'[peerId]) \in trustedDevices'
                 ELSE /\ trustedDevices' = trustedDevices
                      /\ savedTrustedDevices' = savedTrustedDevices
      /\ \A peerId \in DOMAIN peers :
           ( /\ HandleFileRequest(peerId)
             /\ GetDeviceFingerprint(peers[peerId]) \in trustedDevices ) =>
             /\ ~requests'[Len(requests')].prompted
             /\ responses' = Append(responses,
                    RespondToFileRequest(peerId, Len(requests'), TRUE))
    ]_vars

\* two requests of one peer that is in the peer table: the first was put to
\* the user and accepted, the second was accepted without a prompt, and the
\* trust store holds the fingerprint of that peer and nothing else
C28_Witness ==
  /\ Len(requests) = 2
  /\ requests[1].prompted
  /\ ~requests[2].prompted
  /\ requests[1].peerId = requests[2].peerId
  /\ requests[1].peerId \in DOMAIN peers
  /\ trustedDevices = {GetDeviceFingerprint(peers[requests[1].peerId])}
  /\ savedTrustedDevices = trustedDevices
  /\ responses = <<RespondToFileRequest(requests[1].peerId, 1, TRUE),
                   RespondToFileRequest(requests[1].peerId, 2, TRUE)>>

\* C18: when the room-server socket has closed for a reason other than a
\* password error and the socket of the reconnect opens, the peer table is
\* empty and no peer connection is open any more, in any WebRTCManager the
\* client created: nothing of the old session is left in the new one.
C18_ReconnectClearsSession ==
  [][\A s \in 1..Len(cws) :
       (cws[s].rs = "CONNECTING" /\ cws'[s].rs = "OPEN") =>
         /\ peers' = NoPeers
         /\ \A m \in 1..Len(managers') : managers'[m] = {}]_vars

\* C29: the client never has more than one WebSocket to the room server that
\* is connecting or open, however socket closes, the reconnect timer and the
\* room switches of the user interleave.
C29_OneSocketAtATime ==
  Cardinality({s \in 1..Len(cws) : cws[s].rs \in {"CONNECTING", "OPEN"}}) <= 1

\* C24: when the peer-left of a peer is processed, no pending file request
\* from that peer is left to be accepted or declined and no current transfer
\* with that peer remains.
C24_PeerLeftDestroysTransfers ==
  [][\A id \in DOMAIN peers :
       id \notin DOMAIN peers' =>
         /\ pendingFileRequest'.peerId # id
         /\ currentTransfer'.peerId # id]_vars

\* the trust store of the client as it is now
TrustStore == Store(trustedDevices, savedTrustedDevices)

----------------------------------------------------------------------------
(* Perfect negotiation between two peers (the peer connection manager) *)

Other(p) == IF p = "a" THEN "b" ELSE "a"

\* the side with the higher peer-id is polite
Polite(p) == p = "b"

Established == {"p2p", "relay"}
Negotiating == {"connecting", "slow"}

Signal(type, from) == [type |-> type, from |-> from]

\* the remote description has been set: by the answer to the own offer, or
\* by the remote offer that was accepted
HasRemoteDescription(c) == c.desc # "none"

\* setRemoteDescription: the buffered candidates are applied after it
WithRemoteDescription(c, offerer) ==
  [c EXCEPT !.sig = "stable", !.desc = offerer,
            !.applied = c.applied + c.buffered, !.buffered = 0]

\* a connection object is created for the remote peer if there is none
Created(c) ==
  IF c.objects = 0
  THEN [c EXCEPT !.objects = 1, !.state = "connecting"]
  ELSE c

\* a polite side that opens a second connection for the remote offer
\* instead of rolling its own offer back
AcceptOfferSecondConnection(c, from, collision) ==
  IF collision
  THEN WithRemoteDescription([c EXCEPT !.objects = c.objects + 1], from)
  ELSE WithRemoteDescription(Created(c), from)

\* the remote offer is accepted: a polite side in the middle of its own
\* offer rolls its local description back first
AcceptOffer(c, from, collision) ==
  WithRemoteDescription([Created(c) EXCEPT !.rolledBack = @ \/ collision], from)

InitPcm == ServerOff /\ ClientOff

PcmFrame ==
  UNCHANGED <<serverVars, mirrorVars, chunkVars, busyVars, chatVars, connVars, fileVars, peers, clast, rtcVars, fifoVars, teVars, startVars>>

\* prewarmConnection, called by addPeer on joined and on peer-joined: the
\* connection is created and an offer is sent
Prewarm(p) ==
  /\ pcm[p].objects = 0
  /\ pcm' = [pcm EXCEPT ![p] = [Created(pcm[p]) EXCEPT !.sig = "have-local-offer"]]
  /\ wire' = [wire EXCEPT ![Other(p)] = Append(@, Signal("offer", p))]
  /\ PcmFrame

\* handleOffer: an impolite side in the middle of its own offer ignores the
\* remote offer; otherwise the offer is accepted and answered
HandleOffer(p) ==
  /\ wire[p] # <<>>
  /\ Head(wire[p]).type = "offer"
  /\ LET collision == pcm[p].sig = "have-local-offer"
     IN IF collision /\ ~Polite(p)
        THEN /\ wire' = [wire EXCEPT ![p] = Tail(@)]
             /\ UNCHANGED pcm
        ELSE /\ pcm' = [pcm EXCEPT ![p] = AcceptOffer(@, Other(p), collision)]
             /\ wire' = [wire EXCEPT ![p] = Tail(@),
                                     ![Other(p)] = Append(@, Signal("answer", p))]
  /\ PcmFrame

\* handleAnswer: the answer to the own offer sets the remote description; an
\* answer that meets no pending offer is dropped
HandleAnswer(p) ==
  /\ wire[p] # <<>>
  /\ Head(wire[p]).type = "answer"
  /\ pcm' = IF pcm[p].sig = "have-local-offer"
            THEN [pcm EXCEPT ![p] = WithRemoteDescription(@, p)]
            ELSE pcm
  /\ wire' = [wire EXCEPT ![p] = Tail(@)]
  /\ PcmFrame

\* an ICE candidate of the local description is sent through the room server
SendIceCandidate(p) ==
  /\ pcm[p].objects > 0
  /\ ~pcm[p].candSent
  /\ pcm' = [pcm EXCEPT ![p].candSent = TRUE]
  /\ wire' = [wire EXCEPT ![Other(p)] = Append(@, Signal("ice-candidate", p))]
  /\ PcmFrame

\* handleIceCandidate: applied when the remote description is set, buffered
\* until then
HandleIceCandidate(p) ==
  /\ wire[p] # <<>>
  /\ Head(wire[p]).type = "ice-candidate"
  /\ pcm' = IF HasRemoteDescription(pcm[p])
            THEN [pcm EXCEPT ![p].applied = @ + 1]
            ELSE [pcm EXCEPT ![p].buffered = @ + 1]
  /\ wire' = [wire EXCEPT ![p] = Tail(@)]
  /\ PcmFrame

\* ICE connected, DTLS complete: both sides hold the same offer and answer
\* and a candidate of the other side
IceConnected(p) ==
  /\ pcm[p].state \in Negotiating
  /\ pcm[p].sig = "stable" /\ pcm[Other(p)].sig = "stable"
  /\ pcm[p].desc # "none" /\ pcm[p].desc = pcm[Other(p)].desc
  /\ pcm[p].applied > 0
  /\ pcm' = [pcm EXCEPT ![p].state = "p2p"]
  /\ UNCHANGED wire
  /\ PcmFrame

\* the watchdog at 4 s: still negotiating
WatchdogSlow(p) ==
  /\ pcm[p].state = "connecting"
  /\ pcm' = [pcm EXCEPT ![p].state = "slow"]
  /\ UNCHANGED wire
  /\ PcmFrame

\* the watchdog at 8 s: not connected, the connection falls back to relay
WatchdogRelay(p) ==
  /\ pcm[p].state \in Negotiating
  /\ pcm' = [pcm EXCEPT ![p].state = "relay"]
  /\ UNCHANGED wire
  /\ PcmFrame

NextPcm ==
  \/ \E p \in PcmPeers : Prewarm(p)
  \/ \E p \in PcmPeers : HandleOffer(p)
  \/ \E p \in PcmPeers : HandleAnswer(p)
  \/ \E p \in PcmPeers : SendIceCandidate(p)
  \/ \E p \in PcmPeers : HandleIceCandidate(p)
  \/ \E p \in PcmPeers : IceConnected(p)
  \/ \E p \in PcmPeers : WatchdogSlow(p)
  \/ \E p \in PcmPeers : WatchdogRelay(p)

SpecPcm == InitPcm /\ [][NextPcm]_vars

\* frames in flight are delivered, prewarming and the watchdog timers run
FairPcm ==
  \A p \in PcmPeers :
    /\ WF_vars(Prewarm(p))
    /\ WF_vars(HandleOffer(p))
    /\ WF_vars(HandleAnswer(p))
    /\ WF_vars(HandleIceCandidate(p))
    /\ WF_vars(WatchdogRelay(p))

SpecPcmLive == SpecPcm /\ FairPcm

----------------------------------------------------------------------------
(* Claims about perfect negotiation *)

\* both sides are in the middle of their own offer
Glare == \A p \in PcmPeers : pcm[p].sig = "have-local-offer"

\* C8: for two peers that both prewarm a connection to the other, each side
\* never holds two connections to the other; when no frame is in flight both
\* sides have settled on one and the same offer; and from simultaneous offers
\* the connection of each side eventually reaches p2p or relay.
C8_NegotiationConverges ==
  /\ [](\A p \in PcmPeers : pcm[p].objects <= 1)
  /\ []((\A p \in PcmPeers : wire[p] = <<>> /\ pcm[p].objects > 0) =>
          /\ \A p \in PcmPeers : pcm[p].sig = "stable"
          /\ pcm["a"].desc = pcm["b"].desc
          /\ pcm["a"].desc # "none")
  /\ (Glare ~> (\A p \in PcmPeers : pcm[p].state \in Established))

\* after simultaneous offers both sides are connected directly on the
\* impolite side's offer
C8_Witness ==
  /\ \A p \in PcmPeers : pcm[p].state = "p2p" /\ pcm[p].objects = 1
  /\ pcm["b"].rolledBack
  /\ pcm["b"].desc = "a" /\ pcm["a"].desc = "a"
  /\ \A p \in PcmPeers : wire[p] = <<>>

----------------------------------------------------------------------------
(* One file transfer: the transfer engine (webrtc.js) and the app's        *)
(* callbacks and buttons (app.js)                                          *)

TotalChunks == 2    \* chunks of the file

Sender == "send"
Receiver == "receive"
Peer(side) == IF side = Sender THEN Receiver ELSE Sender

TeFrame(type, accepted) == [type |-> type, accepted |-> accepted]

\* the engine holds a record of the transfer that is under way
Active(rec) == rec.state \in {"streaming", "receiving"}

\* the percent of an onProgress after n chunks
Percent(n) == (n * 100) \div TotalChunks

\* webrtc.onProgress fires; only the one with percent = 100 is recorded
OnProgress(rec, n) ==
  IF Percent(n) = 100 THEN [rec EXCEPT !.events = Append(@, "progress100")]
  ELSE rec

\* webrtc.onFileReceived fires: the app's handler shows the download and
\* clears this.currentTransfer
OnFileReceived(rec) ==
  [rec EXCEPT !.events = Append(@, "received"), !.currentTransfer = FALSE]

\* webrtc.onTransferCancelled fires: the app's handler shows the toast and
\* clears this.currentTransfer
OnTransferCancelled(rec) ==
  [rec EXCEPT !.events = Append(@, "cancelled"), !.toast = "cancelled",
              !.currentTransfer = FALSE]

\* the message of the error webrtc.sendFile rejects with, by kind
ErrorMessage(kind) ==
  CASE kind = "declined" -> "拒绝"
    [] kind = "timeout" -> "超时"
    [] kind = "cancelled" -> "取消"
    [] OTHER -> "error"

\* the catch block of CloudDrop.sendFiles: the toast by what the message holds
ToastOf(message) ==
  CASE message = "拒绝" -> "declined"
    [] message = "超时" -> "timeout"
    [] message = "取消" -> "cancelled"
    [] OTHER -> "failed"

\* sendFile rejects: the catch and the finally block of CloudDrop.sendFiles
SendFileRejected(rec, kind) ==
  [rec EXCEPT !.toast = ToastOf(ErrorMessage(kind)), !.currentTransfer = FALSE]

\* a cancel that tears the transfer down whatever its state
TornDownAgain(rec) == OnTransferCancelled([rec EXCEPT !.state = "cancelled"])

\* the engine's teardown on a cancel, its own or the peer's: a transfer that
\* is not under way (cancelled already, done, failed, unknown) is left alone
TornDown(rec) ==
  IF Active(rec) THEN OnTransferCancelled([rec EXCEPT !.state = "cancelled"])
  ELSE rec

TeFrameVars == UNCHANGED <<serverVars, mirrorVars, chunkVars, busyVars, chatVars, connVars, fileVars, peers, clast, pcmVars,
                           rtcVars, fifoVars, startVars>>

Put(side, channel, frame) ==
  [chan EXCEPT ![side][channel] = Append(@, frame)]

\* CloudDrop.sendFiles: webrtc.sendFile sends the file-request
SendFiles ==
  /\ te[Sender].state = "none"
  /\ te' = [te EXCEPT ![Sender].state = "requested"]
  /\ chan' = Put(Receiver, "ctl", TeFrame("file-request", FALSE))
  /\ TeFrameVars

\* the receiver gets the file-request: handleFileRequest shows the prompt
HandleTeFileRequest ==
  /\ chan[Receiver].ctl # <<>>
  /\ Head(chan[Receiver].ctl).type = "file-request"
  /\ te' = [te EXCEPT ![Receiver].state = "requested"]
  /\ chan' = [chan EXCEPT ![Receiver].ctl = Tail(@)]
  /\ TeFrameVars

\* acceptFileRequest (accepted) or declineFileRequest: the file-response
RespondTe(accepted) ==
  /\ te[Receiver].state = "requested"
  /\ te' = IF accepted
           THEN [te EXCEPT ![Receiver].state = "receiving",
                           ![Receiver].currentTransfer = TRUE]
           ELSE [te EXCEPT ![Receiver].state = "declined"]
  /\ chan' = Put(Sender, "ctl", TeFrame("file-response", accepted))
  /\ TeFrameVars

\* a file-response that is taken for an acceptance whatever it says
RespondedAccepting(rec, accepted) ==
  IF rec.state # "requested" THEN rec
  ELSE [rec EXCEPT !.state = "streaming", !.currentTransfer = TRUE]

\* the sender's engine on a file-response: only a transfer still waiting for
\* its answer takes one; accepted starts the stream (onTransferStart sets
\* this.currentTransfer), declined fails the transfer and rejects sendFile
Responded(rec, accepted) ==
  IF rec.state # "requested" THEN rec
  ELSE IF accepted
       THEN [rec EXCEPT !.state = "streaming", !.currentTransfer = TRUE]
       ELSE SendFileRejected([rec EXCEPT !.state = "failed",
                                         !.kind = "declined"], "declined")

\* handleSignaling, case 'file-response': webrtc.handleFileResponse
HandleFileResponse ==
  /\ chan[Sender].ctl # <<>>
  /\ Head(chan[Sender].ctl).type = "file-response"
  /\ LET accepted == Head(chan[Sender].ctl).accepted
         rec == Responded(te[Sender], accepted)
     IN /\ te' = [te EXCEPT ![Sender] = rec]
        /\ chan' = [chan EXCEPT
             ![Sender].ctl = Tail(@),
             ![Receiver].data =
               IF rec.state = "streaming" /\ te[Sender].state = "requested"
               THEN Append(@, TeFrame("file-start", FALSE)) ELSE @]
  /\ TeFrameVars

\* no file-response within 60 s: the transfer fails and sendFile rejects
Timeout60 ==
  /\ te[Sender].state = "requested"
  /\ te' = [te EXCEPT ![Sender] =
              SendFileRejected([@ EXCEPT !.state = "failed",
                                         !.kind = "timeout"], "timeout")]
  /\ UNCHANGED chan
  /\ TeFrameVars

\* the sender streams one chunk and reports its progress
SendChunk ==
  /\ te[Sender].state = "streaming"
  /\ te[Sender].chunks < TotalChunks
  /\ te' = [te EXCEPT ![Sender] =
              OnProgress([@ EXCEPT !.chunks = @ + 1], @.chunks + 1)]
  /\ chan' = Put(Receiver, "data", TeFrame("chunk", FALSE))
  /\ TeFrameVars

\* the sender ends the file: sendFile resolves, sendFiles shows the toast and
\* its finally block clears this.currentTransfer
SendEnd ==
  /\ te[Sender].state = "streaming"
  /\ te[Sender].chunks = TotalChunks
  /\ te' = [te EXCEPT ![Sender].state = "done", ![Sender].toast = "sent",
                      ![Sender].currentTransfer = FALSE]
  /\ chan' = Put(Receiver, "data", TeFrame("file-end", FALSE))
  /\ TeFrameVars

\* a data frame that is handled as if the transfer were still under way
DataReceivedAnyway(rec, type) ==
  CASE type = "chunk" -> OnProgress([rec EXCEPT !.chunks = @ + 1], rec.chunks + 1)
    [] type = "file-end" -> OnFileReceived([rec EXCEPT !.state = "done"])
    [] OTHER -> rec

\* the receiving engine on a file-start, chunk or file-end frame: frames of a
\* transfer that is not under way are discarded
DataReceived(rec, type) ==
  IF rec.state # "receiving" THEN rec
  ELSE CASE type = "chunk" ->
              OnProgress([rec EXCEPT !.chunks = @ + 1], rec.chunks + 1)
         [] type = "file-end" -> OnFileReceived([rec EXCEPT !.state = "done"])
         [] OTHER -> rec

\* a frame arrives on the data channel: a cancel frame tears the transfer
\* down, the others feed the receiving transfer
HandleDataFrame(side) ==
  /\ chan[side].data # <<>>
  /\ LET type == Head(chan[side].data).type
     IN te' = [te EXCEPT ![side] = IF type = "cancel" THEN TornDown(@)
                                   ELSE DataReceived(@, type)]
  /\ chan' = [chan EXCEPT ![side].data = Tail(@)]
  /\ TeFrameVars

\* handleSignaling, case 'file-cancel': webrtc.handleFileCancel
HandleFileCancel(side) ==
  /\ chan[side].ctl # <<>>
  /\ Head(chan[side].ctl).type = "file-cancel"
  /\ te' = [te EXCEPT ![side] = TornDown(@)]
  /\ chan' = [chan EXCEPT ![side].ctl = Tail(@)]
  /\ TeFrameVars

\* webrtc.cancelTransfer: tears the transfer down and tells the peer on both
\* planes, when the transfer is under way
CancelTransfer(rec) ==
  IF Active(rec) THEN [TornDown(rec) EXCEPT !.cancelSent = @ + 1] ELSE rec

\* CloudDrop.cancelCurrentTransfer (the cancel button and the modal's close
\* button): without a current transfer it only hides the modal
CancelCurrentTransfer(side) ==
  /\ IF ~te[side].currentTransfer
     THEN UNCHANGED <<te, chan>>
     ELSE /\ te' = [te EXCEPT ![side] =
                      [CancelTransfer(@) EXCEPT !.toast = "cancelled",
                                                !.currentTransfer = FALSE]]
          /\ chan' = IF Active(te[side])
                     THEN [chan EXCEPT
                            ![Peer(side)].ctl = Append(@, TeFrame("file-cancel", FALSE)),
                            ![Peer(side)].data = Append(@, TeFrame("cancel", FALSE))]
                     ELSE chan
  /\ TeFrameVars

InitTransfer == ServerOff /\ ClientOff

NextTransfer ==
  \/ SendFiles
  \/ HandleTeFileRequest
  \/ \E accepted \in BOOLEAN : RespondTe(accepted)
  \/ HandleFileResponse
  \/ Timeout60
  \/ SendChunk
  \/ SendEnd
  \/ \E side \in TeSides : HandleDataFrame(side)
  \/ \E side \in TeSides : HandleFileCancel(side)
  \/ \E side \in TeSides : CancelCurrentTransfer(side)

SpecTransfer == InitTransfer /\ [][NextTransfer]_vars

Count(seq, x) == Cardinality({i \in 1..Len(seq) : seq[i] = x})

\* C12: cancelling is idempotent. Once a side's transfer is cancelled (by its
\* own cancelCurrentTransfer or by a cancel from the peer), no step, and so no
\* further cancel on either plane or from either button, changes that side's
\* record, fires another onTransferCancelled or sends another cancel message;
\* each side sends at most one cancel and fires at most one onTransferCancelled.
C12_CancelIdempotent ==
  [][\A side \in TeSides :
       /\ te'[side].cancelSent <= 1
       /\ Count(te'[side].events, "cancelled") <= 1
       /\ te[side].state = "cancelled" =>
            /\ te'[side] = te[side]
            /\ Len(chan'[Peer(side)].ctl) <= Len(chan[Peer(side)].ctl)
            /\ Len(chan'[Peer(side)].data) <= Len(chan[Peer(side)].data)]_vars

\* both sides cancelled on their own, and each has since handled (and
\* ignored) the two cancels of the other
C12_Witness ==
  /\ \A side \in TeSides :
       /\ te[side].state = "cancelled"
       /\ te[side].cancelSent = 1
       /\ te[side].events = <<"cancelled">>
       /\ chan[side] = [ctl |-> <<>>, data |-> <<>>]

\* C13: on either side no onFileReceived and no onProgress with percent = 100
\* fires after that side's onTransferCancelled, and a transfer cancelled on
\* any side never fires onFileReceived at all, whatever was in flight.
C13_NothingAfterCancel ==
  /\ \A side \in TeSides :
       \A i, j \in 1..Len(te[side].events) :
          (i < j /\ te[side].events[i] = "cancelled")
             => te[side].events[j] \notin {"received", "progress100"}
  /\ (\E side \in TeSides : Count(te[side].events, "cancelled") > 0)
       => \A side \in TeSides : Count(te[side].events, "received") = 0

\* the receiver cancelled while chunks and the file-end were in flight, and
\* has since discarded them all
C13_Witness ==
  /\ te[Receiver].state = "cancelled"
  /\ te[Receiver].chunks < TotalChunks
  /\ te[Sender].state = "done"
  /\ te[Sender].chunks = TotalChunks
  /\ chan[Receiver].data = <<>>

\* C19: a sender waiting for its answer that takes a file-response with
\* accepted = false fails the transfer as declined, and one whose 60 s run out
\* first fails it as timeout; the two are told apart in the kind and in the
\* toast; a failed transfer has sent no chunk, sends no frame on the data
\* channel, and stays failed whatever arrives later.
C19_DeclinedOrTimeout ==
  [][LET s == te[Sender]
         t == te'[Sender]
         ctl == chan[Sender].ctl
         taken == ctl # <<>> /\ chan'[Sender].ctl = Tail(ctl)
                   /\ Head(ctl).type = "file-response"
     IN /\ (s.state = "requested" /\ taken /\ ~Head(ctl).accepted)
             => t.state = "failed" /\ t.kind = "declined"
        /\ (s.state = "requested" /\ t.state = "failed" /\ ~taken)
             => t.kind = "timeout"
        /\ t.state = "failed" =>
             /\ t.kind \in {"declined", "timeout"}
             /\ t.toast = t.kind
             /\ t.chunks = 0
             /\ ~t.currentTransfer
             /\ Len(chan'[Receiver].data) <= Len(chan[Receiver].data)
        /\ s.state = "failed" => t = s]_vars

\* the receiver declined and the sender has taken the answer
C19_Witness ==
  /\ te[Receiver].state = "declined"
  /\ te[Sender].state = "failed"
  /\ te[Sender].kind = "declined"
  /\ te[Sender].toast = "declined"
  /\ chan[Sender].ctl = <<>>

----------------------------------------------------------------------------
(* The trust store among everything that reaches the client *)

\* one remote peer and one file-request, one reconnect or room switch, and
\* one transfer the client sends, with its file-response and file-cancel
NextTrust ==
  \/ \E profile \in PeerProfiles : AddPeer(1, profile)
  \/ RemovePeer(1)
  \/ \E newName \in PeerNames : ClientNameChanged(1, newName)
  \/ Len(requests) < 1 /\ HandleFileRequest(1)
  \/ AcceptFileRequest
  \/ DeclineFileRequest
  \/ AcceptAndTrustDevice
  \/ UntrustDevice(1)
  \/ \E fingerprint \in trustedDevices : RemoveTrustedDevice(fingerprint)
  \/ DismissModal
  \/ \E s \in 1..MaxClientSockets : WsOnOpen(s)
  \/ \E s \in 1..MaxClientSockets : WsOnClose(s, 1006)
  \/ Len(cws) < 2 /\ TimerFires
  \/ Len(cws) < 2 /\ RefreshRoom
  \/ \E password \in Passwords : Len(cws) < 2 /\ JoinSecureRoom(password)
  \/ SendFiles
  \/ HandleTeFileRequest
  \/ \E accepted \in BOOLEAN : RespondTe(accepted)
  \/ HandleFileResponse
  \/ \E side \in TeSides : HandleDataFrame(side)
  \/ \E side \in TeSides : HandleFileCancel(side)
  \/ \E side \in TeSides : CancelCurrentTransfer(side)

SpecTrust == InitFile /\ [][NextTrust]_vars

\* C25: the trust store, in memory and as saved, changes only in a step of
\* accept-and-trust (trustDevice), of untrustDevice or of removeTrustedDevice:
\* no frame from the room server (joined, peer-joined, peer-left,
\* name-changed, file-request, file-response, file-cancel), no plain accept
\* or decline, no reconnect and no room switch changes it.
C25_TrustStoreFrame ==
  [][(trustedDevices' # trustedDevices \/ savedTrustedDevices' # savedTrustedDevices)
       => \/ AcceptAndTrustDevice
          \/ \E id \in DOMAIN peers : UntrustDevice(id)
          \/ \E fingerprint \in trustedDevices : RemoveTrustedDevice(fingerprint)]_vars

\* the store holds a fingerprint, saved as in memory, that is not the one
\* peer 1 has now, after a request of peer 1 was accepted on the prompt, a
\* transfer the client sent was cancelled by the peer, and the client
\* connected a second socket that is open
C25_Witness ==
  /\ trustedDevices # {}
  /\ savedTrustedDevices = trustedDevices
  /\ 1 \in DOMAIN peers
  /\ ~IsDeviceTrusted(peers[1])
  /\ responses = <<RespondToFileRequest(1, 1, TRUE)>>
  /\ te[Sender].events = <<"cancelled">>
  /\ te[Sender].cancelSent = 0
  /\ Len(cws) = 2
  /\ cws[2].rs = "OPEN"

\* ---------------------------------------------------------------------------
\* A file-start on the data channel, at the receiving client
\* ---------------------------------------------------------------------------

\* the webrtc.onFileRequest handler of connectWebSocket, called for a
\* file-start frame of the data channel: the receiving progress modal shows
\* the file of the frame when incomingTransfers holds a confirmed entry for
\* the peer the frame came from
HandleFileStart(peerId, fileId) ==
  /\ Connected
  /\ receivingModal' =
       IF peerId \in DOMAIN incomingTransfers /\ incomingTransfers[peerId].confirmed
       THEN Start(peerId, fileId)
       ELSE receivingModal
  /\ UNCHANGED <<serverVars, mirrorVars, chunkVars, busyVars, chatVars, connVars, fileVars, peers, clast, pcmVars, rtcVars,
                 fifoVars, teVars, incomingTransfers>>

\* the webrtc.onFileReceived handler, once the engine has put the file of a
\* peer together: the progress modal is hidden and this.currentTransfer
\* cleared; the engine is done with its entry of incomingTransfers
FileReceived(peerId) ==
  /\ peerId \in DOMAIN incomingTransfers
  /\ currentTransfer' = NoTransfer
  /\ receivingModal' = NoStart
  /\ incomingTransfers' = [i \in DOMAIN incomingTransfers \ {peerId} |->
                             incomingTransfers[i]]
  /\ UNCHANGED <<serverVars, mirrorVars, chunkVars, busyVars, chatVars, connVars, trustedDevices, savedTrustedDevices,
                 pendingFileRequest, receiveModal, requests, responses, peers,
                 clast, pcmVars, rtcVars, fifoVars, teVars>>

\* the transfer ids a file-start frame may carry
StartIds == 1..MaxRequests

NextStart ==
  \/ \E id \in 1..MaxPeerIds, profile \in PeerProfiles : AddPeer(id, profile)
  \/ \E peerId \in 1..MaxPeerIds : HandleFileRequest(peerId)
  \/ AcceptFileRequest
  \/ DeclineFileRequest
  \/ AcceptAndTrustDevice
  \/ DismissModal
  \/ \E peerId \in 1..MaxPeerIds, fileId \in StartIds : HandleFileStart(peerId, fileId)
  \/ \E peerId \in 1..MaxPeerIds : FileReceived(peerId)

SpecStart == InitFile /\ [][NextStart]_vars

\* C26: the receiving progress modal shows a transfer only when the client
\* has sent file-response accepted=true for that very transfer: a file-start
\* of a transfer the client has not accepted is not surfaced
C26_OnlyAfterAccept ==
  \/ receivingModal = NoStart
  \/ \E i \in 1..Len(responses) :
       responses[i] = RespondToFileRequest(receivingModal.peerId,
                                           receivingModal.fileId, TRUE)

\* ---------------------------------------------------------------------------
\* The clients of one room and the room server together: every client with
\* its peer table and its sockets, the server with its attachments.  What a
\* client sends reaches the server at once; what the server sends waits at
\* the client's end of the socket until the client handles it.
\* ---------------------------------------------------------------------------

MaxEnds == 3        \* sockets the clients open in all
MaxJoins == 3       \* join messages the server answers in all
MaxQueued == 2      \* frames waiting at a client's end when a name is changed

\* localStorage clouddrop_device_name when the page is loaded, and the names
\* a user may change it to
StoredDeviceName == "Ann"
DeviceNames == {"Ann", "Bob"}

\* new WebSocket(wsUrl) at the client, accepted by Room.handleWebSocket
NewEnd(c) == [app |-> c, rs |-> "CONNECTING", onclose |-> TRUE, frames |-> <<>>]

\* the frames of a handler's output that go to socket s, in order
RECURSIVE FramesTo(_, _)
FramesTo(out, s) ==
  IF out = <<>> THEN <<>>
  ELSE (IF Head(out)[1] = s THEN <<Head(out)[2]>> ELSE <<>>) \o FramesTo(Tail(out), s)

\* what the server sent is queued at the client's end of each socket
Queue(e, out) ==
  [s \in DOMAIN e |-> IF e[s].rs = "CLOSED" THEN e[s]
                      ELSE [e[s] EXCEPT !.frames = @ \o FramesTo(out, s)]]

\* Room.webSocketClose as a function of the sockets
ServerClose(socks, ws) ==
  IF socks[ws].rs = "GONE" THEN Done(socks, <<>>)
  ELSE LET r == HandleLeave([socks EXCEPT ![ws].rs = "CLOSING"], ws)
       IN Done([r.socks EXCEPT ![ws] = Dropped], r.out)

\* CloudDrop.addPeer, removePeer and handleNameChanged on a peer table
AddPeerTo(table, peer) ==
  [i \in DOMAIN table \cup {peer.id} |-> IF i = peer.id THEN peer ELSE table[i]]

RemovePeerFrom(table, id) == [i \in DOMAIN table \ {id} |-> table[i]]

NameChangedIn(table, id, newName) ==
  IF id \in DOMAIN table THEN [table EXCEPT ![id].name = newName] ELSE table

RECURSIVE AddPeersTo(_, _)
AddPeersTo(table, roster) ==
  IF roster = <<>> THEN table
  ELSE AddPeersTo(AddPeerTo(table, Head(roster)), Tail(roster))

\* CloudDrop.handleSignaling for the frames that concern the peer table
HandleSignalingApp(app, msg) ==
  CASE msg.type = "joined" ->
         [app EXCEPT !.peerId = msg.peerId, !.peers = AddPeersTo(@, msg.peers)]
    [] msg.type = "peer-joined" -> [app EXCEPT !.peers = AddPeerTo(@, msg.peer)]
    [] msg.type = "peer-left" -> [app EXCEPT !.peers = RemovePeerFrom(@, msg.peer.id)]
    [] msg.type = "name-changed" ->
         [app EXCEPT !.peers = NameChangedIn(@, msg.from, msg.data)]
    [] OTHER -> app

MirrorFrame ==
  UNCHANGED <<passwordHash, storage, reqs, okArgs, last, sent, connVars, fileVars,
              peers, clast, pcmVars, rtcVars, fifoVars, teVars, startVars, chunkVars, busyVars, chatVars>>

\* CloudDrop.connectWebSocket of client c: a new socket, this.ws refers to it
Connect(c, app) ==
  /\ Len(ends) < MaxEnds
  /\ apps' = [apps EXCEPT ![c] = [app EXCEPT !.ws = Len(ends) + 1]]
  /\ sockets' = Append(sockets, NewSocket)
  /\ ends' = Append(ends, NewEnd(c))
  /\ UNCHANGED nextId

\* the page is loaded: CloudDrop.init calls connectWebSocket
AppStart(c) ==
  /\ ~apps[c].started
  /\ Connect(c, [apps[c] EXCEPT !.started = TRUE, !.deviceName = StoredDeviceName])
  /\ MirrorFrame

\* ws.onopen of socket s: the peer table is cleared and join is sent with
\* this.ws.send, which throws unless this.ws is open; the join carries the
\* device name, so that the server generates none
AppOnOpen(s) ==
  /\ s \in 1..Len(ends)
  /\ ends[s].rs = "CONNECTING"
  /\ nextId < MaxJoins
  /\ LET c == ends[s].app
         w == apps[c].ws
         e1 == [ends EXCEPT ![s].rs = "OPEN"]
         join == ClientMsg("join", 0, 0, TRUE, "",
                           [id |-> 0, name |-> apps[c].deviceName,
                            deviceType |-> "desktop", browserInfo |-> "Chrome"])
     IN /\ apps' = [apps EXCEPT ![c].peers = NoPeers]
        /\ IF e1[w].rs = "OPEN"
           THEN LET r == HandleJoin(sockets, w, join, nextId + 1, "")
                IN /\ sockets' = r.socks
                   /\ nextId' = nextId + 1
                   /\ ends' = Queue(e1, r.out)
           ELSE /\ ends' = e1
                /\ UNCHANGED <<sockets, nextId>>
  /\ MirrorFrame

\* ws.onmessage of socket s: handleSignaling of the frame that waited longest
AppOnMessage(s) ==
  /\ s \in 1..Len(ends)
  /\ ends[s].rs = "OPEN"
  /\ ends[s].frames # <<>>
  /\ apps' = [apps EXCEPT ![ends[s].app] = HandleSignalingApp(@, Head(ends[s].frames))]
  /\ ends' = [ends EXCEPT ![s].frames = Tail(@)]
  /\ UNCHANGED <<sockets, nextId>>
  /\ MirrorFrame

\* the connection of socket s is lost: Room.webSocketClose at the server,
\* ws.onclose at the client, which sets the reconnect timer
AppLost(s) ==
  /\ s \in 1..Len(ends)
  /\ ends[s].rs \in {"CONNECTING", "OPEN"}
  /\ LET r == ServerClose(sockets, s)
         e1 == [ends EXCEPT ![s].rs = "CLOSED", ![s].frames = <<>>]
     IN /\ sockets' = r.socks
        /\ ends' = Queue(e1, r.out)
  /\ apps' = IF ends[s].onclose
             THEN [apps EXCEPT ![ends[s].app].timers = @ + 1]
             ELSE apps
  /\ UNCHANGED nextId
  /\ MirrorFrame

\* a reconnect timer of client c fires: connectWebSocket
AppTimer(c) ==
  /\ apps[c].timers > 0
  /\ Connect(c, [apps[c] EXCEPT !.timers = @ - 1])
  /\ MirrorFrame

\* CloudDrop.switchRoom into the room: this.ws loses its onclose handler and
\* is closed, the peer table is cleared, connectWebSocket
AppSwitch(c) ==
  /\ apps[c].started
  /\ Len(ends) < MaxEnds
  /\ LET w == apps[c].ws
         r == ServerClose(sockets, w)
         e1 == [ends EXCEPT ![w].onclose = FALSE, ![w].rs = "CLOSED",
                            ![w].frames = <<>>]
     IN /\ sockets' = Append(r.socks, NewSocket)
        /\ ends' = Append(Queue(e1, r.out), NewEnd(c))
        /\ apps' = [apps EXCEPT ![c].peers = NoPeers, ![c].ws = Len(ends) + 1]
  /\ UNCHANGED nextId
  /\ MirrorFrame

\* CloudDrop.updateDeviceName: name-changed is sent when this.ws is open
AppRename(c, newName) ==
  /\ apps[c].started
  /\ apps[c].deviceName # newName
  /\ \A s \in 1..Len(ends) : Len(ends[s].frames) < MaxQueued
  /\ LET w == apps[c].ws
         msg == ClientMsg("name-changed", 0, 0, TRUE, newName, NoAtt)
         r == IF ends[w].rs = "OPEN" THEN HandleNameChanged(sockets, w, msg)
              ELSE Done(sockets, <<>>)
     IN /\ sockets' = r.socks
        /\ ends' = Queue(ends, r.out)
  /\ apps' = [apps EXCEPT ![c].deviceName = newName]
  /\ UNCHANGED nextId
  /\ MirrorFrame

InitMirror == ServerOff /\ ClientOff

NextMirror ==
  \/ \E c \in Apps : AppStart(c)
  \/ \E s \in 1..MaxEnds : AppOnOpen(s)
  \/ \E s \in 1..MaxEnds : AppOnMessage(s)
  \/ \E s \in 1..MaxEnds : AppLost(s)
  \/ \E c \in Apps : AppTimer(c)
  \/ \E c \in Apps : AppSwitch(c)
  \/ \E c \in Apps, newName \in DeviceNames : AppRename(c, newName)

SpecMirror == InitMirror /\ [][NextMirror]_vars

\* no frame of the server waits at a client and no socket is being opened
Quiet == \A s \in 1..Len(ends) : ends[s].frames = <<>> /\ ends[s].rs # "CONNECTING"

\* client c is connected: this.ws is open and has joined
ConnectedApp(c) ==
  /\ apps[c].ws # 0
  /\ ends[apps[c].ws].rs = "OPEN"
  /\ sockets[apps[c].ws].att.id # 0

\* the server's live peers but those of client c's own sockets, by id
MirrorOf(c) ==
  LET live == {s \in GetWebSockets(sockets) : sockets[s].att.id # 0 /\ ends[s].app # c}
      ids == {sockets[s].att.id : s \in live}
  IN [id \in ids |-> PeerInfo(sockets[PeerSocket(sockets, id)].att)]

\* C27: whenever no frame is in flight, the peer table of every connected
\* client holds exactly the server's live peers other than the client itself,
\* under the same ids and with their current names
C27_PeerTableMirrorsServer ==
  Quiet => \A c \in Apps : ConnectedApp(c) => apps[c].peers = MirrorOf(c)

\* ---------------------------------------------------------------------------
\* One accepted file on the data channel: file-start, the chunks, file-end
\* (spec 4.3, chunking and frame layout), with sizes in bytes scaled down
\* ---------------------------------------------------------------------------

ChunkSize == 3      \* chunk-size, in bytes
MaxSize == 9        \* the largest file sent, in bytes

\* a division that rounds down where the engine rounds up
TotalChunksFloor(size) == size \div ChunkSize

\* total-chunks = ceil(size / chunk-size), as the sender computes it
TotalChunksOf(size) == (size + ChunkSize - 1) \div ChunkSize

\* the payload length of chunk seq of a file of the size given
PayloadLen(size, seq) ==
  IF size - seq * ChunkSize < ChunkSize THEN size - seq * ChunkSize ELSE ChunkSize

\* a frame of the data channel: kind, seq and payload-len of the layout
DataFrame(kind, seq, len) == [kind |-> kind, seq |-> seq, len |-> len]

\* the data of the file-request a sender makes for a file
RequestData(size) == [size |-> size, totalChunks |-> TotalChunksOf(size)]

\* the entry CloudDrop.acceptFileRequest sets up for the request it accepts
AcceptedFile(data) ==
  [size |-> data.size, totalChunks |-> data.totalChunks, handled |-> 0,
   received |-> 0, bytesDone |-> 0, lastLen |-> 0, state |-> "accepted"]

ChunkFrame == UNCHANGED <<serverVars, busyVars, chatVars, connVars, fileVars, peers, clast, pcmVars,
                          rtcVars, fifoVars, teVars, startVars, mirrorVars>>

\* a file of some size is offered and the receiver accepts it
FileAccepted(size) ==
  /\ outgoing = NoFile
  /\ outgoing' = [size |-> size, totalChunks |-> TotalChunksOf(size), seq |-> 0,
                  frames |-> <<>>, state |-> "accepted"]
  /\ incoming' = AcceptedFile(RequestData(size))
  /\ ChunkFrame

\* the sender's file-start
SendFileStart ==
  /\ outgoing.state = "accepted"
  /\ outgoing' = [outgoing EXCEPT !.frames = Append(@, DataFrame("file-start", 0, 0)),
                                  !.state = "streaming"]
  /\ UNCHANGED incoming
  /\ ChunkFrame

\* the sender's next chunk, seq counting from 0
SendNextChunk ==
  /\ outgoing.state = "streaming"
  /\ outgoing.seq < outgoing.totalChunks
  /\ outgoing' = [outgoing EXCEPT
                    !.frames = Append(@, DataFrame("chunk", outgoing.seq,
                                        PayloadLen(outgoing.size, outgoing.seq))),
                    !.seq = @ + 1]
  /\ UNCHANGED incoming
  /\ ChunkFrame

\* the sender's file-end, after the last chunk
SendFileEnd ==
  /\ outgoing.state = "streaming"
  /\ outgoing.seq = outgoing.totalChunks
  /\ outgoing' = [outgoing EXCEPT !.frames = Append(@, DataFrame("file-end", 0, 0)),
                                  !.state = "done"]
  /\ UNCHANGED incoming
  /\ ChunkFrame

\* the receiver handles the next frame: file-start starts receiving, a chunk
\* is accumulated unless it is past totalChunks or size, file-end completes
\* the file when every byte is there and fails it otherwise
ReceiveDataFrame ==
  /\ incoming.handled < Len(outgoing.frames)
  /\ LET f == outgoing.frames[incoming.handled + 1]
         next == [incoming EXCEPT !.handled = @ + 1]
     IN incoming' =
          CASE f.kind = "file-start" /\ incoming.state = "accepted" ->
                 [next EXCEPT !.state = "receiving"]
            [] f.kind = "chunk" /\ incoming.state = "receiving"
                 /\ incoming.received < incoming.totalChunks
                 /\ incoming.bytesDone + f.len <= incoming.size ->
                 [next EXCEPT !.received = @ + 1, !.bytesDone = @ + f.len,
                              !.lastLen = f.len]
            [] f.kind = "file-end" /\ incoming.state = "receiving" ->
                 [next EXCEPT !.state = IF incoming.bytesDone = incoming.size
                                        THEN "done" ELSE "failed"]
            [] OTHER -> next
  /\ UNCHANGED outgoing
  /\ ChunkFrame

InitChunks == ServerOff /\ ClientOff

NextChunks ==
  \/ \E size \in 0..MaxSize : FileAccepted(size)
  \/ SendFileStart
  \/ SendNextChunk
  \/ SendFileEnd
  \/ ReceiveDataFrame

SpecChunks == InitChunks /\ [][NextChunks]_vars

\* the chunk frames among the frames sent
ChunksSent == {i \in 1..Len(outgoing.frames) : outgoing.frames[i].kind = "chunk"}

\* n is size / chunk-size rounded up: the least number of chunks of at most
\* chunk-size bytes that hold size bytes
IsCeil(n, size) ==
  /\ n * ChunkSize >= size
  /\ n = 0 \/ (n - 1) * ChunkSize < size

\* C21: a file that has been sent made ceil(size / chunk-size) chunk frames
\* between one file-start and one file-end; a zero-byte file made file-start
\* and file-end only; a file of chunk-size bytes made one chunk; a file of
\* chunk-size + 1 bytes made two, the second of 1 byte; and the receiver that
\* has handled every frame of it has all its chunks and bytes and is done
C21_ChunkCount ==
  /\ outgoing.state = "done" =>
       /\ IsCeil(Cardinality(ChunksSent), outgoing.size)
       /\ Len(outgoing.frames) = Cardinality(ChunksSent) + 2
       /\ Head(outgoing.frames).kind = "file-start"
       /\ outgoing.frames[Len(outgoing.frames)].kind = "file-end"
       /\ outgoing.size = 0 => Cardinality(ChunksSent) = 0
       /\ outgoing.size = ChunkSize => Cardinality(ChunksSent) = 1
       /\ outgoing.size = ChunkSize + 1 =>
            /\ Cardinality(ChunksSent) = 2
            /\ outgoing.frames[3].len = 1
       /\ \A i \in ChunksSent : outgoing.frames[i].len \in 1..ChunkSize
  /\ outgoing.state = "done" /\ incoming.handled = Len(outgoing.frames) =>
       /\ incoming.state = "done"
       /\ incoming.received = Cardinality(ChunksSent)
       /\ incoming.bytesDone = outgoing.size

\* a file of chunk-size + 1 bytes has been sent and received: two chunks, the
\* second of 1 byte
C21_Witness ==
  /\ outgoing.size = ChunkSize + 1
  /\ outgoing.state = "done"
  /\ incoming.state = "done"
  /\ incoming.received = 2
  /\ incoming.lastLen = 1

\* ---------------------------------------------------------------------------
\* The room server with everything each socket's client receives kept in
\* order: joins, renames, forwarded messages, closes and errors
\* ---------------------------------------------------------------------------

MaxLogged == 5      \* frames received in all before a rename or a targeted message

LogMsgs ==
  {m \in JoinMsgs : m.join.name = "Ann"}
  \cup {ClientMsg("name-changed", 0, 0, TRUE, "Zed", NoAtt)}
  \cup {ClientMsg("offer", to, 0, TRUE, "d1", NoAtt) : to \in 1..2}

\* the frames received on all sockets so far
RECURSIVE LoggedUpTo(_)
LoggedUpTo(n) == IF n = 0 THEN 0 ELSE Len(delivered[n]) + LoggedUpTo(n - 1)
Logged == LoggedUpTo(MaxSockets)

\* the frames of the handler that ran leave the server; the client of each
\* socket receives those sent to it, in the order they were sent
TransmitLog ==
  /\ ~Ready
  /\ last' = Idle
  /\ sent' = <<>>
  /\ delivered' = [t \in 1..MaxSockets |-> delivered[t] \o FramesTo(sent, t)]
  /\ UNCHANGED <<passwordHash, storage, reqs, okArgs, sockets, nextId>>
  /\ UNCHANGED <<connVars, fileVars, peers, clast, pcmVars, rtcVars, submitted, teVars,
                 startVars, mirrorVars, chunkVars, busyVars, chatVars>>

NextLog ==
  \/ \E provided \in {NULL, "h1"} : HandleWebSocket(TRUE, provided)
  \/ \E ws \in 1..MaxSockets, msg \in LogMsgs :
       /\ msg.type # "join" => Logged < MaxLogged
       /\ WebSocketMessage(ws, msg, "")
  \/ \E ws \in 1..MaxSockets : WebSocketClose(ws)
  \/ \E ws \in 1..MaxSockets : WebSocketError(ws)
  \/ TransmitLog

SpecLog == Init /\ [][NextLog]_vars

\* the positions of socket s's log that hold a peer-left of id
PeerLeftsOf(s, id) ==
  {i \in 1..Len(delivered[s]) :
     delivered[s][i].type = "peer-left" /\ delivered[s][i].peer.id = id}

\* id was announced: some client received it in a joined frame, as its own
\* peer-id or in the roster, or in a peer-joined frame
Announced(id) ==
  \E t \in 1..MaxSockets : \E i \in 1..Len(delivered[t]) :
    \/ /\ delivered[t][i].type = "joined"
       /\ \/ delivered[t][i].peerId = id
          \/ \E k \in 1..Len(delivered[t][i].peers) : delivered[t][i].peers[k].id = id
    \/ delivered[t][i].type = "peer-joined" /\ delivered[t][i].peer.id = id

\* C31: every client receives peer-left of a peer-id at most once, and only
\* of a peer-id that a joined or peer-joined frame announced before
C31_PeerLeftOnce ==
  \A s \in 1..MaxSockets : \A id \in 1..MaxIds :
    /\ Cardinality(PeerLeftsOf(s, id)) <= 1
    /\ PeerLeftsOf(s, id) # {} => Announced(id)

\* the first frame reaches the client of socket s in this step
FirstFrame(s) == delivered[s] = <<>> /\ delivered'[s] # <<>>

\* C32: the first frame the client of an admitted socket receives is the
\* joined frame of its own join, carrying the peer-id of its attachment; no
\* peer-joined, peer-left, name-changed or forwarded frame comes before it
C32_JoinedFirst ==
  [][\A s \in 1..Len(sockets) :
       (FirstFrame(s) /\ sockets[s].rs = "OPEN") =>
         /\ Head(delivered'[s]).type = "joined"
         /\ Head(delivered'[s]).peerId # 0
         /\ Head(delivered'[s]).peerId = sockets[s].att.id]_vars

\* a client has received its joined frame and after it a peer-joined and a
\* forwarded offer, while another admitted socket that has not joined yet has
\* received nothing
C32_Witness ==
  \E s, t \in 1..Len(sockets) :
    /\ s # t
    /\ sockets[s].rs = "OPEN"
    /\ Len(delivered[s]) >= 3
    /\ Head(delivered[s]).type = "joined"
    /\ \E i \in 2..Len(delivered[s]) : delivered[s][i].type = "peer-joined"
    /\ \E i \in 2..Len(delivered[s]) : delivered[s][i].type = "offer"
    /\ sockets[t].rs = "OPEN"
    /\ sockets[t].att.id = 0
    /\ delivered[t] = <<>>

\* ---------------------------------------------------------------------------
\* The room server with clients that send frames of the server's own types
\* and of types it does not know, before and after they joined
\* ---------------------------------------------------------------------------

\* the types of the server's own frames, leave, peers and an unknown type
SpoofedTypes == {"joined", "peer-joined", "peer-left", "error", "leave", "peers", "bogus"}

SpoofMsgs ==
  {m \in JoinMsgs : m.join.name = "Ann"}
  \cup {Garbage, ClientMsg("name-changed", 0, 0, TRUE, "Zed", NoAtt)}
  \cup {ClientMsg(t, to, 1, TRUE, "d1", NoAtt) :
          t \in SpoofedTypes \cup {"offer", "text", "file-request"}, to \in 1..2}

NextSpoof == NextRoom(SpoofMsgs)

SpecSpoof == Init /\ [][NextSpoof]_vars

\* the message types whose handling may send a frame
CausingTypes == {"join", "name-changed"} \cup ForwardedTypes

\* the frames the handler that ran last sent to other sockets than its own
ToOthers == {k \in 1..Len(sent) : sent[k][1] # last.ws}

\* C33: a frame goes to another peer only when the handled socket has a
\* peer-id and the event is a join, a name-changed, a message of one of the
\* nine forwarded types, or the socket's close or error; a message of any
\* other type, a frame that does not parse, and any message but join from a
\* socket without a peer-id make the server send nothing at all
C33_OnlyJoinedSenders ==
  /\ last.op = "message" =>
       /\ (~last.msg.wellFormed \/ last.msg.type \notin CausingTypes) => sent = <<>>
       /\ (last.id = 0 /\ last.msg.type # "join") => sent = <<>>
       /\ ToOthers # {} => sockets[last.ws].att.id # 0
       /\ \A k \in ToOthers :
            \/ sent[k][2].type = "peer-joined" /\ last.msg.type = "join"
                 /\ sent[k][2].peer.id = sockets[last.ws].att.id
            \/ sent[k][2].type = "name-changed" /\ last.msg.type = "name-changed"
                 /\ sent[k][2].from = last.id
            \/ sent[k][2].type = last.msg.type /\ last.msg.type \in ForwardedTypes
                 /\ sent[k][2].from = last.id
  /\ last.op \in {"close", "error"} =>
       /\ ToOthers # {} => last.id # 0
       /\ \A k \in 1..Len(sent) :
            sent[k][2].type = "peer-left" /\ sent[k][2].peer.id = last.id
  /\ last.op \notin {"message", "close", "error"} => ToOthers = {}

\* a joined peer sent a frame of one of the server's own types addressed to
\* another joined peer whose socket is open, and the server sent nothing
C33_Witness ==
  /\ last.op = "message"
  /\ last.msg.type \in SpoofedTypes
  /\ last.id # 0
  /\ sockets[last.ws].rs = "OPEN"
  /\ \E t \in 1..Len(sockets) :
       /\ t # last.ws
       /\ sockets[t].rs = "OPEN"
       /\ sockets[t].att.id = last.msg.to
  /\ sent = <<>>

\* ---------------------------------------------------------------------------
\* A password set on a room that has peers in it: set-password requests among
\* upgrades, joins, forwarded messages and closes
\* ---------------------------------------------------------------------------

GateMsgs ==
  {m \in JoinMsgs : m.join.name = "Ann"}
  \cup {ClientMsg(t, to, 0, TRUE, "d1", NoAtt) : t \in {"offer", "text"}, to \in 1..2}

NextGate ==
  \/ NextPassword
  \/ NextRoom(GateMsgs)

SpecGate == Init /\ [][NextGate]_vars

\* the peers in the room: the open sockets that have a peer-id
JoinedPeers == {s \in 1..Len(sockets) : sockets[s].rs = "OPEN" /\ sockets[s].att.id # 0}

\* C34: a set-password request changes nothing but the password hash (in
\* memory and in storage): no socket is closed, no attachment changes and no
\* frame is sent; a forwarded message between two peers in the room is
\* delivered whether or not a password is set; an upgrade is admitted or
\* rejected by the hash held when it arrives and leaves the sockets accepted
\* before it as they are
C34_SetPasswordFrame ==
  [][last = Idle =>
       /\ last'.op \in {"set-password", "set-password-body"} =>
            /\ sockets' = sockets
            /\ nextId' = nextId
            /\ sent' = <<>>
            /\ IF last'.op = "set-password-body" /\ last'.res = "ok"
               THEN passwordHash' = last'.arg /\ storage' = last'.arg
               ELSE passwordHash' = passwordHash /\ storage' = storage
       /\ (/\ last'.op = "message"
           /\ last'.msg.type \in ForwardedTypes
           /\ last'.ws \in JoinedPeers
           /\ PeerSocket(sockets, last'.msg.to) \in JoinedPeers) =>
            /\ Len(sent') = 1
            /\ sent'[1][1] = PeerSocket(sockets, last'.msg.to)
            /\ sent'[1][2].type = last'.msg.type
            /\ sent'[1][2].from = last'.id
            /\ sockets' = sockets
       /\ (last'.op = "upgrade" /\ last'.ws # 0) =>
            /\ (sockets'[last'.ws].rs = "OPEN") = (GateCode(passwordHash, last'.arg) = 0)
            /\ \A s \in 1..Len(sockets) : sockets'[s] = sockets[s]
            /\ passwordHash' = passwordHash]_vars

\* a password has just been set on a room that started without one and has two
\* peers in it: both sockets are still open with their peer-ids and nothing
\* was sent
C34_Witness ==
  /\ last.op = "set-password-body"
  /\ last.res = "ok"
  /\ passwordHash = last.arg
  /\ Len(okArgs) = 1
  /\ Cardinality(JoinedPeers) >= 2
  /\ sent = <<>>

\* ---------------------------------------------------------------------------
\* One client that sends a file to a peer while file requests of peers
\* arrive and are accepted
\* ---------------------------------------------------------------------------

\* the transfer id the engine gives the file the client sends
SendFileId == MaxRequests + 1

\* what webrtc.onTransferStart reports for the file the client sends
SendTransfer(peerId, fileId) == [peerId |-> peerId, fileId |-> fileId, direction |-> "send"]

\* a file picked for a peer card: sendFiles shows the waiting modal and
\* awaits webrtc.sendFile, which asks the peer
SendFilesTo(peerId) ==
  /\ Connected
  /\ peerId \in DOMAIN peers
  /\ sending = NoSend
  /\ sending' = [peerId |-> peerId, fileId |-> SendFileId, state |-> "waiting"]
  /\ UNCHANGED <<serverVars, mirrorVars, chunkVars, chatVars, connVars, fileVars, peers, clast,
                 pcmVars, rtcVars, fifoVars, teVars, startVars>>

\* the peer accepted: the engine starts streaming and fires onTransferStart,
\* whose handler sets this.currentTransfer
OnTransferStart ==
  /\ sending.state = "waiting"
  /\ sending' = [sending EXCEPT !.state = "streaming"]
  /\ currentTransfer' = SendTransfer(sending.peerId, sending.fileId)
  /\ UNCHANGED <<serverVars, mirrorVars, chunkVars, chatVars, connVars, trustedDevices,
                 savedTrustedDevices, pendingFileRequest, receiveModal, requests,
                 responses, peers, clast, pcmVars, rtcVars, fifoVars, teVars, startVars>>

\* webrtc.sendFile settles (the file was sent, declined, timed out, failed or
\* cancelled): the finally block of sendFiles clears this.currentTransfer
SendFileSettled ==
  /\ sending # NoSend
  /\ sending' = NoSend
  /\ currentTransfer' = NoTransfer
  /\ UNCHANGED <<serverVars, mirrorVars, chunkVars, chatVars, connVars, trustedDevices,
                 savedTrustedDevices, pendingFileRequest, receiveModal, requests,
                 responses, peers, clast, pcmVars, rtcVars, fifoVars, teVars, startVars>>

\* cancelCurrentTransfer, from the close or cancel button of the progress
\* modal: webrtc.cancelTransfer for the transfer this.currentTransfer names,
\* then this.currentTransfer = null.  A cancelled send makes sendFile reject
\* later; a cancelled receive is dropped by the engine.
CancelTransferClick ==
  /\ Connected
  /\ currentTransfer' = NoTransfer
  /\ sending' =
       IF currentTransfer.direction = "send" /\ sending.state = "streaming"
          /\ sending.peerId = currentTransfer.peerId
          /\ sending.fileId = currentTransfer.fileId
       THEN [sending EXCEPT !.state = "cancelled"]
       ELSE sending
  /\ incomingTransfers' =
       IF currentTransfer.direction = "receive"
          /\ currentTransfer.peerId \in DOMAIN incomingTransfers
          /\ incomingTransfers[currentTransfer.peerId].fileId = currentTransfer.fileId
       THEN [i \in DOMAIN incomingTransfers \ {currentTransfer.peerId} |->
               incomingTransfers[i]]
       ELSE incomingTransfers
  /\ receivingModal' = NoStart
  /\ UNCHANGED <<serverVars, mirrorVars, chunkVars, chatVars, connVars, trustedDevices,
                 savedTrustedDevices, pendingFileRequest, receiveModal, requests,
                 responses, peers, clast, pcmVars, rtcVars, fifoVars, teVars>>

NextBusy ==
  \/ \E id \in 1..MaxPeerIds, profile \in PeerProfiles : AddPeer(id, profile)
  \/ \E peerId \in 1..MaxPeerIds : HandleFileRequest(peerId)
  \/ AcceptFileRequest
  \/ DeclineFileRequest
  \/ AcceptAndTrustDevice
  \/ \E peerId \in 1..MaxPeerIds : FileReceived(peerId)
  \/ \E peerId \in 1..MaxPeerIds : SendFilesTo(peerId)
  \/ OnTransferStart
  \/ SendFileSettled
  \/ CancelTransferClick

SpecBusy == InitFile /\ [][NextBusy]_vars

\* the transfers in progress: the file being streamed to a peer and the
\* files accepted from peers and not yet received
InProgress(snd, inc) ==
  (IF snd.state = "streaming" THEN {SendTransfer(snd.peerId, snd.fileId)} ELSE {})
  \cup {Transfer(q, inc[q].fileId) : q \in DOMAIN inc}

\* C35: while a transfer the user started or accepted is in progress,
\* currentTransfer names a transfer in progress, and a step that sets
\* currentTransfer to null is the step in which the transfer it named
\* completes, fails or is cancelled
C35_CurrentTransferTracks ==
  [][/\ InProgress(sending', incomingTransfers') # {} =>
          currentTransfer' \in InProgress(sending', incomingTransfers')
     /\ (currentTransfer # NoTransfer /\ currentTransfer' = NoTransfer) =>
          /\ currentTransfer \in InProgress(sending, incomingTransfers)
          /\ currentTransfer \notin InProgress(sending', incomingTransfers')]_vars

\* ---------------------------------------------------------------------------
\* The three password fields of the client and the URL it connects to
\* ---------------------------------------------------------------------------

\* the three fields agree: all set, the hash being the one of the password,
\* or all cleared
PasswordFieldsAgree ==
  IF isSecureRoom
  THEN /\ roomPassword \in Passwords
       /\ roomPasswordHash = HashPasswordForServer(roomPassword)
  ELSE roomPassword = NULL /\ roomPasswordHash = NULL

\* C36: in every state roomPassword, roomPasswordHash and isSecureRoom are
\* all set or all cleared, and every WebSocket the client creates carries
\* passwordHash in its URL exactly when isSecureRoom is true as it connects,
\* the parameter being roomPasswordHash
C36_PasswordFieldsTogether ==
  /\ []PasswordFieldsAgree
  /\ [][Len(cws') > Len(cws) =>
          /\ Len(cws') = Len(cws) + 1
          /\ (cws'[Len(cws')].hash # NULL) = isSecureRoom'
          /\ isSecureRoom' => cws'[Len(cws')].hash = roomPasswordHash']_vars

\* the client is in a secure room on a socket whose URL carried the hash,
\* after an earlier socket it had opened without one
C36_Witness ==
  /\ isSecureRoom
  /\ thisWs > 1
  /\ cws[thisWs].hash = roomPasswordHash
  /\ cws[thisWs].rs = "OPEN"
  /\ cws[1].hash = NULL

\* ---------------------------------------------------------------------------
\* Trust follows the fingerprint of what the peer table holds now
\* ---------------------------------------------------------------------------

\* the step handles a file-request
RequestHandled == Len(requests') = Len(requests) + 1

\* the request handled in this step was answered at once, without a prompt
AutoAccepted ==
  LET received == requests'[Len(requests')]
  IN /\ ~received.prompted
     /\ responses' = Append(responses,
           RespondToFileRequest(received.peerId, received.fileId, TRUE))

\* the step handles a name-changed that gives peer id another name
Renamed(id) ==
  /\ id \in DOMAIN peers
  /\ \E newName \in PeerNames : ClientNameChanged(id, newName)
  /\ peers'[id].name # peers[id].name

\* a file-request of a peer in the table is auto-accepted exactly when the
\* fingerprint of the name, device class and browser info the table holds
\* for it now is in the trust store, so that two peers with the same three
\* values are treated alike
TrustIsByFingerprint ==
  RequestHandled =>
    LET peerId == requests'[Len(requests')].peerId
    IN peerId \in DOMAIN peers =>
         /\ AutoAccepted = (GetDeviceFingerprint(peers[peerId]) \in trustedDevices)
         /\ (\E q \in DOMAIN peers :
               /\ peers[q].name = peers[peerId].name
               /\ peers[q].deviceType = peers[peerId].deviceType
               /\ peers[q].browserInfo = peers[peerId].browserInfo
               /\ GetDeviceFingerprint(peers[q]) \in trustedDevices) => AutoAccepted

\* a name-changed changes the name the table holds for the peer and nothing
\* else of the peer, and leaves the trust store alone
RenameKeepsStore ==
  \A id \in 1..MaxPeerIds :
    Renamed(id) =>
      /\ peers' = [peers EXCEPT ![id].name = peers'[id].name]
      /\ trustedDevices' = trustedDevices
      /\ savedTrustedDevices' = savedTrustedDevices

\* C37 as stated: trust is by the fingerprint of the peer's current name,
\* device class and browser info, and once a trusted peer has been given
\* another name by a name-changed it is no longer trusted, so that its later
\* file-requests are prompted
C37_RenamedPeerPrompted ==
  [][/\ TrustIsByFingerprint
     /\ RenameKeepsStore
     /\ \A id \in 1..MaxPeerIds :
          (Renamed(id) /\ GetDeviceFingerprint(peers[id]) \in trustedDevices) =>
            GetDeviceFingerprint(peers'[id]) \notin trustedDevices']_vars

\* C37, amended: trust is by the fingerprint of the peer's current name,
\* device class and browser info; a name-changed changes only the name in the
\* table, so a trusted peer that was renamed is prompted from then on unless
\* the fingerprint of its new name is in the trust store as well, and a peer
\* with the same three values as a trusted one is auto-accepted
C37_TrustByCurrentFingerprint ==
  [][/\ TrustIsByFingerprint
     /\ RenameKeepsStore
     /\ \A id \in 1..MaxPeerIds :
          (/\ Renamed(id)
           /\ GetDeviceFingerprint(peers[id]) \in trustedDevices
           /\ \A f \in trustedDevices :
                f # GetDeviceFingerprint([peers[id] EXCEPT !.name = peers'[id].name])) =>
            GetDeviceFingerprint(peers'[id]) \notin trustedDevices']_vars

\* a peer was auto-accepted, then renamed to Zed, and its next request was
\* put to the user, with the fingerprint of its old name still in the store
C37_Witness ==
  /\ Len(requests) = 2
  /\ requests[1].peerId = requests[2].peerId
  /\ ~requests[1].prompted
  /\ requests[2].prompted
  /\ requests[1].peerId \in DOMAIN peers
  /\ peers[requests[1].peerId].name = "Zed"
  /\ GetDeviceFingerprint([peers[requests[1].peerId] EXCEPT !.name = "Aa"])
       \in trustedDevices
  /\ responses = <<RespondToFileRequest(requests[1].peerId, requests[1].fileId, TRUE)>>

\* ---------------------------------------------------------------------------
\* The chat with one peer: entries sent from the chat panel, their retries,
\* and entries saved without flags
\* ---------------------------------------------------------------------------

MaxMessages == 3    \* entries of the message history
MaxStamps == 3      \* times one entry gets a timestamp (once sent, then retries)

ChatPeer == 1       \* the peer the chat is with

\* an entry of the history; a flag the code leaves undefined is FALSE, and
\* timestamp counts the times Date.now() was stored in it
Message(type, isSending) ==
  [type |-> type, sending |-> isSending, failed |-> FALSE, timestamp |-> 1]

\* a webrtc.sendText call that has not settled, with the entry it is for
TextSend(index, retry) == [index |-> index, retry |-> retry]

\* seq without its i-th element
RemoveAt(seq, i) == SubSeq(seq, 1, i - 1) \o SubSeq(seq, i + 1, Len(seq))

ChatFrame ==
  UNCHANGED <<serverVars, connVars, fileVars, peers, clast, pcmVars, rtcVars, fifoVars,
              teVars, startVars, mirrorVars, chunkVars, busyVars>>

\* CloudDrop.openChatPanel
OpenChatPanel ==
  /\ currentChatPeer' = ChatPeer
  /\ UNCHANGED <<messageHistory, textSends, chatInputDisabled>>
  /\ ChatFrame

\* CloudDrop.closeChatPanel
CloseChatPanel ==
  /\ currentChatPeer' = 0
  /\ UNCHANGED <<messageHistory, textSends, chatInputDisabled>>
  /\ ChatFrame

\* CloudDrop.saveMessage of an entry without flags: a text received
\* (onTextReceived) or one sent by sendTextMessage, saved after its send
SaveMessage(type) ==
  /\ Len(messageHistory) < MaxMessages
  /\ messageHistory' = Append(messageHistory, Message(type, FALSE))
  /\ UNCHANGED <<textSends, currentChatPeer, chatInputDisabled>>
  /\ ChatFrame

\* the click handler of sendChatMessage up to its await: the entry is saved
\* as sending, the input and the button are disabled, sendText is called
SendChatMessage ==
  /\ currentChatPeer # 0
  /\ ~chatInputDisabled
  /\ Len(messageHistory) < MaxMessages
  /\ messageHistory' = Append(messageHistory, Message("sent", TRUE))
  /\ textSends' = Append(textSends, TextSend(Len(messageHistory) + 1, FALSE))
  /\ chatInputDisabled' = TRUE
  /\ UNCHANGED currentChatPeer
  /\ ChatFrame

\* a retryMessage without the test of msg.failed
RetryMessageAny(messageIndex) ==
  /\ messageIndex \in 1..Len(messageHistory)
  /\ messageHistory[messageIndex].timestamp < MaxStamps
  /\ messageHistory' = [messageHistory EXCEPT ![messageIndex].failed = FALSE,
                                              ![messageIndex].sending = TRUE,
                                              ![messageIndex].timestamp = @ + 1]
  /\ textSends' = Append(textSends, TextSend(messageIndex, TRUE))
  /\ UNCHANGED <<currentChatPeer, chatInputDisabled>>
  /\ ChatFrame

\* CloudDrop.retryMessage up to its await, from a click on an entry
RetryMessage(messageIndex) ==
  /\ messageIndex \in 1..Len(messageHistory)
  /\ messageHistory[messageIndex].timestamp < MaxStamps
  /\ IF ~messageHistory[messageIndex].failed
     THEN UNCHANGED <<messageHistory, textSends>>
     ELSE /\ messageHistory' = [messageHistory EXCEPT ![messageIndex].failed = FALSE,
                                                     ![messageIndex].sending = TRUE,
                                                     ![messageIndex].timestamp = @ + 1]
          /\ textSends' = Append(textSends, TextSend(messageIndex, TRUE))
  /\ UNCHANGED <<currentChatPeer, chatInputDisabled>>
  /\ ChatFrame

\* webrtc.sendText settles.  After a retry: sending is cleared, failed is set
\* when it rejected.  After a click on send: the same, but the try block goes
\* on with renderChatHistory(this.currentChatPeer.id), which throws when the
\* panel was closed meanwhile, so that the catch block marks the entry as
\* failed also when the text was sent; finally enables the input again.
SendTextSettled(k, resolved) ==
  /\ k \in 1..Len(textSends)
  /\ LET send == textSends[k]
         failed == IF send.retry THEN ~resolved
                   ELSE ~resolved \/ currentChatPeer = 0
     IN /\ messageHistory' = [messageHistory EXCEPT ![send.index].sending = FALSE,
                                                    ![send.index].failed = failed]
        /\ chatInputDisabled' = IF send.retry THEN chatInputDisabled ELSE FALSE
  /\ textSends' = RemoveAt(textSends, k)
  /\ UNCHANGED currentChatPeer
  /\ ChatFrame

NextChat ==
  \/ OpenChatPanel
  \/ CloseChatPanel
  \/ \E type \in {"received", "sent"} : SaveMessage(type)
  \/ SendChatMessage
  \/ \E messageIndex \in 1..MaxMessages : RetryMessage(messageIndex)
  \/ \E k \in 1..MaxMessages, resolved \in BOOLEAN : SendTextSettled(k, resolved)

SpecChat == InitFile /\ [][NextChat]_vars

\* the sendText calls in flight for entry i
SendsOf(i) == {k \in 1..Len(textSends) : textSends[k].index = i}

\* no entry is sending and failed at once; an entry is sending exactly while
\* one sendText call for it is in flight, so that it is sent (no flag) or
\* failed when none is
FlagsFollowSends ==
  \A i \in 1..Len(messageHistory) :
    /\ ~(messageHistory[i].sending /\ messageHistory[i].failed)
    /\ Cardinality(SendsOf(i)) <= 1
    /\ messageHistory[i].sending = (SendsOf(i) # {})

\* C38: no entry of the message history is both sending and failed; at most
\* one send is in flight per entry and a retry starts only for an entry that
\* is failed; an entry is sending exactly while its send is in flight and is
\* sent (neither flag) or failed once it settled
C38_SendingOrFailed ==
  /\ []FlagsFollowSends
  /\ [][Len(textSends') > Len(textSends) =>
          LET send == textSends'[Len(textSends')]
          IN /\ textSends' = Append(textSends, send)
             /\ IF send.retry
                THEN /\ send.index \in 1..Len(messageHistory)
                     /\ messageHistory[send.index].failed
                     /\ ~messageHistory[send.index].sending
                ELSE send.index = Len(messageHistory) + 1]_vars

\* an entry failed, was retried and is sent now, while another entry is
\* failed and a third is being sent
C38_Witness ==
  \E i, j, k \in 1..Len(messageHistory) :
    /\ messageHistory[i].timestamp = 2
    /\ ~messageHistory[i].sending
    /\ ~messageHistory[i].failed
    /\ messageHistory[j].failed
    /\ messageHistory[k].sending
    /\ textSends = <<TextSend(k, FALSE)>>

====
